---- MODULE Spec2Model ----
(***************************************************************************)
(* State-machine model of the XHE kernel (class XHEKernel): identity,      *)
(* pulse log, address generation and resolution, slip ledger, social       *)
(* graph, export/import/reset, and its persistence in localStorage.        *)
(*                                                                         *)
(* Conventions                                                             *)
(*  - `kernel' is the in-memory object (`this'); `storage' is localStorage.*)
(*  - A JavaScript string is a sequence of tokens ("" is <<>>); a token is *)
(*    a tuple that starts with a tag: a character <<"chr", c>>, a literal  *)
(*    piece of an address such as <<"xhe://">>, a digest <<"sha256", x>>,  *)
(*    a random hex run <<"hex", n>>.  Concatenation is \o.                 *)
(*  - sha256 and randomHex are collision free: the digest of x is the      *)
(*    token <<"sha256", x>>, randomHex() is the token of a fresh number.   *)
(*  - timestamp() returns `clock', which advances at resetKernel.          *)
(*  - An async method runs in segments that end at the await of            *)
(*    crypto.subtle.digest; segments of different calls interleave.        *)
(*  - The operators that model methods take and return an execution        *)
(*    context st = [k, ls, trail, rnd, now, ev, pulses, threw, ret]: the    *)
(*    kernel object, localStorage, every localStorage content written in   *)
(*    the segment (the crash points), the random source, the clock, the    *)
(*    notifications, pulses stored, an escaped exception, a return value.  *)
(***************************************************************************)
EXTENDS Integers, Sequences, FiniteSets, TLC

VARIABLES
  kernel,     \* the XHEKernel object of the page (alive = constructor completed)
  storage,    \* localStorage
  tasks,      \* the async calls suspended at an await
  clock,      \* what timestamp() returns
  rnd,        \* the last number randomHex produced
  exported,   \* the files written by exportKernelState: <<>> or <<snapshot>>
  events,     \* observer notifications delivered by the last step
  step,       \* ghost: which segment the last step ran
  done,       \* ghost: what the last step returned to its caller
  hist,       \* ghost: counts of reloads, crashes, calls and resets; whether an
              \* import ran; whether a reload or crash cut a call short; the
              \* highest sequence number this kernel object gave a pulse; the
              \* last resolveAddress result while nothing else ran since;
              \* what generateAddress returned for xhe and ipfs since the
              \* last resetKernel
  limits      \* the bounds of the specification being checked; never changes

vars == <<kernel, storage, tasks, clock, rnd, exported, events, step, done, hist,
          limits>>

----------------------------------------------------------------------------
(* Bounds of the model *)

(* Spec: every method, one call at a time *)
MaxCalls == 2      \* async calls that reach their first await
MaxTasks == 1      \* async calls in flight at once
MaxBoots == 0      \* reloads of a page whose kernel is running
MaxResets == 1     \* resetKernel calls
MaxCrashes == 0    \* crashes in the middle of a segment
MaxExports == 1    \* files written by exportKernelState

(* SpecLedger: the slip ledger under concurrent calls, reloads and crashes *)
LedgerMaxCalls == 2
LedgerMaxTasks == 2
LedgerMaxBoots == 1
LedgerMaxResets == 1
LedgerMaxCrashes == 1

(* SpecResolve: address resolution over populated stores, one call at a time *)
ResolveMaxCalls == 3
ResolveMaxTasks == 1
(* SpecIndex: the address index under resets, crashes and imports *)
IndexMaxCalls == 3
IndexMaxTasks == 1
IndexMaxResets == 1
IndexMaxCrashes == 1
SocialMaxCalls == 3
SocialMaxTasks == 2
SocialMaxBoots == 1
SocialMaxResets == 1
PostMaxCalls == 3
PostMaxTasks == 2

Limits(maxCalls, maxTasks, maxBoots, maxResets, maxCrashes, maxExports) ==
  [maxCalls |-> maxCalls, maxTasks |-> maxTasks, maxBoots |-> maxBoots,
   maxResets |-> maxResets, maxCrashes |-> maxCrashes, maxExports |-> maxExports]

(* Program constants *)

Tok(token) == <<token>>

GENESIS_SLIPS == 100
KERNEL_VERSION == Tok(<<"1.0.0">>)
PREVIEW_LENGTH == 50

(* Inputs *)

Did(n) == <<<<"did:xhe:">>, <<"hex", n>>>>
ForeignDid == Did(0)
NoDid == <<>>
Amounts == {0, 60}
LedgerAmounts == {-1, 0, 60, 100}

----------------------------------------------------------------------------
(* Generic helpers *)

RECURSIVE SumOver(_, _)
SumOver(f, S) ==
  IF S = {} THEN 0
  ELSE LET x == CHOOSE y \in S : TRUE IN f[x] + SumOver(f, S \ {x})

SumBalances(ledger) == SumOver(ledger.balances, DOMAIN ledger.balances)

Range(s) == {s[i] : i \in 1..Len(s)}

----------------------------------------------------------------------------
(* Crypto utilities *)

sha256(content) == Tok(<<"sha256", content>>)

(* btoa(pulseContent).slice(0, 32): the base64 of the first 24 characters  *)
(* of the JSON text, i.e. of {"type":"<TYPE>... ; for the two types        *)
(* _emitPulseSync is called with these 24 characters hold the type only.   *)
btoaSlice32(pulse) == Tok(<<"btoa", pulse.type>>)

timestamp(st) == st.now

randomHex(st) == Tok(<<"hex", st.rnd + 1>>)

TakeRandom(st) == [st EXCEPT !.rnd = @ + 1]

----------------------------------------------------------------------------
(* Storage layer *)

STORAGE_KEYS ==
  <<"KERNEL_META", "IDENTITY", "IDENTITY_HISTORY", "CONTENT_STORE",
    "PULSE_STORE", "PULSE_SEQUENCE", "ADDRESS_INDEX", "SLIP_LEDGER",
    "SOCIAL_GRAPH", "FEEDS", "CHANNELS">>

(* localStorage: each key holds <<>> (no item) or <<value>> *)
EmptyStorage == [key \in Range(STORAGE_KEYS) |-> <<>>]

loadState(ls, key, defaultValue) ==
  IF ls[key] = <<>> THEN defaultValue ELSE ls[key][1]

saveState(st, key, value) ==
  LET ls2 == [st.ls EXCEPT ![key] = <<value>>]
  IN [st EXCEPT !.ls = ls2, !.trail = Append(@, ls2)]

removeItem(st, key) ==
  LET ls2 == [st.ls EXCEPT ![key] = <<>>]
  IN [st EXCEPT !.ls = ls2, !.trail = Append(@, ls2)]

----------------------------------------------------------------------------
(* Default values of the stores *)

EmptyMap == <<>>

(* `genesis' is a ghost field: how many times each did was granted the     *)
(* genesis slips in this ledger. No code reads it.                         *)
EmptyLedger == [balances |-> EmptyMap, transactions |-> <<>>, genesis |-> EmptyMap]

EmptySocialGraph == [following |-> <<>>, followers |-> <<>>, blocked |-> <<>>]

NoIdentity == [did |-> NoDid, created |-> 0]

Has(map, key) == key \in DOMAIN map

Put(map, key, value) == (key :> value) @@ map

(* this.slipLedger.balances[did] || 0 *)
BalanceOf(ledger, did) ==
  IF Has(ledger.balances, did) THEN ledger.balances[did] ELSE 0

GenesisOf(ledger, did) ==
  IF Has(ledger.genesis, did) THEN ledger.genesis[did] ELSE 0

(* A kernel object whose constructor did not complete *)
DeadKernel ==
  [alive |-> FALSE,
   kernelMeta |-> [version |-> KERNEL_VERSION, created |-> 0, lastActive |-> 0],
   pulseSequence |-> 0,
   identity |-> NoIdentity,
   identityHistory |-> <<>>,
   contentStore |-> EmptyMap,
   pulseStore |-> EmptyMap,
   addressIndex |-> EmptyMap,
   slipLedger |-> EmptyLedger,
   slipLedgerDefined |-> FALSE,
   socialGraph |-> EmptySocialGraph,
   feeds |-> EmptyMap,
   channels |-> EmptyMap]

Context(k, ls, now, r) ==
  [k |-> k, ls |-> ls, trail |-> <<ls>>, rnd |-> r, now |-> now,
   ev |-> <<>>, pulses |-> 0, threw |-> FALSE, ret |-> <<>>]

----------------------------------------------------------------------------
(* Observers *)

(* The callbacks on(event, callback) has put in this._listeners[event], in  *)
(* the order of subscription: two observers of every event, the first of   *)
(* which raises whenever it is called                                      *)
_listeners(event) == <<"faulty", "console">>

Raises(observer) == observer = "faulty"

(* forEach without the try/catch: the first callback that raises ends the  *)
(* loop                                                                    *)
RECURSIVE DeliverUncaught(_)
DeliverUncaught(callbacks) ==
  IF callbacks = <<>> THEN <<>>
  ELSE IF Raises(Head(callbacks))
    THEN <<[observer |-> Head(callbacks), raised |-> TRUE]>>
    ELSE <<[observer |-> Head(callbacks), raised |-> FALSE]>>
           \o DeliverUncaught(Tail(callbacks))

(* forEach(cb => { try { cb(data) } catch (e) { console.error(...) } }):   *)
(* the calls made, in order, and whether each raised                       *)
RECURSIVE Deliver(_)
Deliver(callbacks) ==
  IF callbacks = <<>> THEN <<>>
  ELSE <<[observer |-> Head(callbacks), raised |-> Raises(Head(callbacks))]>>
         \o Deliver(Tail(callbacks))

_emitUncaught(st, event, data) ==
  [st EXCEPT !.ev = Append(@, [event |-> event, data |-> data,
                               ledger |-> st.k.slipLedger,
                               k |-> st.k, ls |-> st.ls,
                               received |-> DeliverUncaught(_listeners(event))])]

(* The callbacks of `event' run here: each is handed `data' and may read   *)
(* the kernel; `ledger' is the slip ledger it finds, `k' and `ls' the      *)
(* kernel and the localStorage at that moment, `received' the callbacks    *)
(* that were called                                                        *)
_emit(st, event, data) ==
  [st EXCEPT !.ev = Append(@, [event |-> event, data |-> data,
                               ledger |-> st.k.slipLedger,
                               k |-> st.k, ls |-> st.ls,
                               received |-> Deliver(_listeners(event))])]

(* this.<field> = value; saveState(STORAGE_KEYS.<key>, this.<field>) *)
SetStore(st, field, key, value) ==
  saveState([st EXCEPT !.k[field] = value], key, value)

----------------------------------------------------------------------------
(* Pulse system *)

(* String(n).padStart(8, '0') *)
padStart8(n) == Tok(<<"pad8", n>>)

SequenceNumber(sequence) == sequence[1][2]

_getNextSequence(st) ==
  [SetStore(st, "pulseSequence", "PULSE_SEQUENCE", st.k.pulseSequence + 1)
     EXCEPT !.ret = padStart8(st.k.pulseSequence + 1)]

(* The record that is hashed: {type, payload, timestamp, author, sequence, *)
(* kernelVersion}                                                          *)
PulseRecord(st, type, payload, sequence) ==
  [type |-> type, payload |-> payload, timestamp |-> timestamp(st),
   author |-> st.k.identity.did, sequence |-> sequence,
   kernelVersion |-> st.k.kernelMeta.version]

JSONstringifyPulse(pulse) ==
  Tok(<<"json", pulse.type, pulse.payload, pulse.timestamp, pulse.author,
        pulse.sequence, pulse.kernelVersion>>)

(* `${sequence}/${hash}` *)
PulseId(sequence, hash) == sequence \o Tok(<<"/">>) \o hash

StoredPulse(pulse, hash) ==
  [type |-> pulse.type, payload |-> pulse.payload,
   timestamp |-> pulse.timestamp, author |-> pulse.author,
   sequence |-> pulse.sequence, kernelVersion |-> pulse.kernelVersion,
   hash |-> hash,
   address |-> Tok(<<"pulse://">>) \o PulseId(pulse.sequence, hash),
   id |-> PulseId(pulse.sequence, hash)]

(* a pulse kept in memory and never written to localStorage *)
PutPulseInMemory(st, stored) ==
  [st EXCEPT !.k.pulseStore = Put(@, stored.id, stored), !.pulses = @ + 1]

(* this.pulseStore[pulseId] = storedPulse; saveState(PULSE_STORE, ...) *)
PutPulse(st, stored) ==
  [SetStore(st, "pulseStore", "PULSE_STORE", Put(st.k.pulseStore, stored.id, stored))
     EXCEPT !.pulses = @ + 1]

(* The pulse record of _emitPulse, built after the sequence number was     *)
(* allocated (st.ret)                                                      *)
BuildPulse(st, type, payload) ==
  [st EXCEPT !.ret = PulseRecord(st, type, payload, st.ret)]

(* _emitPulse up to the await of sha256: allocates the sequence number and *)
(* builds the record; .ret is the record                                   *)
_emitPulseBegin(st, type, payload) == BuildPulse(_getNextSequence(st), type, payload)

AsyncStored(pulse) == StoredPulse(pulse, sha256(JSONstringifyPulse(pulse)))

(* _emitPulse after the await: stores, persists and announces the pulse *)
_emitPulseEnd(st, pulse) ==
  [_emit(PutPulse(st, AsyncStored(pulse)), "kernel:pulse", AsyncStored(pulse))
     EXCEPT !.ret = AsyncStored(pulse)]

SyncStored(pulse) == StoredPulse(pulse, btoaSlice32(pulse))

SyncPulse(st, type, payload) ==
  PutPulse(st, SyncStored(PulseRecord(st, type, payload, st.ret)))

_emitPulseSync(st, type, payload) == SyncPulse(_getNextSequence(st), type, payload)

----------------------------------------------------------------------------
(* Identity creation and kernel initialization *)

GrantGenesis(ledger, did) ==
  [ledger EXCEPT !.balances = Put(@, did, GENESIS_SLIPS),
                 !.genesis = Put(@, did, GenesisOf(ledger, did) + 1)]

(* if (!this.slipLedger.balances[did]): no entry, or an entry of 0 *)
NeedsGenesis(ledger, did) == BalanceOf(ledger, did) = 0

(* if (!balances[did]) { balances[did] = 100; saveState(SLIP_LEDGER, ...) } *)
EnsureGenesis(st, did) ==
  IF NeedsGenesis(st.k.slipLedger, did)
    THEN SetStore(st, "slipLedger", "SLIP_LEDGER", GrantGenesis(st.k.slipLedger, did))
    ELSE st

NewIdentity(st) ==
  [did |-> Tok(<<"did:xhe:">>) \o randomHex(st), created |-> timestamp(st)]

IdentityCreatePulse(st, identity, emitPulse) ==
  IF emitPulse
    THEN _emitPulseSync(st, "IDENTITY_CREATE", <<"IDENTITY_CREATE", identity.did>>)
    ELSE st

(* _createIdentity after saveState(IDENTITY, identity): reading            *)
(* this.slipLedger.balances raises a TypeError while the constructor has   *)
(* not assigned this.slipLedger yet                                        *)
CreatedIdentity(st, identity, emitPulse) ==
  IF ~st.k.slipLedgerDefined
    THEN [st EXCEPT !.threw = TRUE]
    ELSE [IdentityCreatePulse(EnsureGenesis(st, identity.did), identity, emitPulse)
            EXCEPT !.ret = identity]

_createIdentity(st, emitPulse) ==
  CreatedIdentity(saveState(TakeRandom(st), "IDENTITY", NewIdentity(st)),
                  NewIdentity(st), emitPulse)

_loadOrCreateIdentity(st, isNewKernel) ==
  IF loadState(st.ls, "IDENTITY", NoIdentity).did # NoDid
    THEN [st EXCEPT !.ret = loadState(st.ls, "IDENTITY", NoIdentity)]
    ELSE _createIdentity(st, isNewKernel)

IsNewKernel(ls) == ls["KERNEL_META"] = <<>>

LoadedMeta(ls, now) ==
  IF IsNewKernel(ls)
    THEN [version |-> KERNEL_VERSION, created |-> now, lastActive |-> now]
    ELSE [loadState(ls, "KERNEL_META", DeadKernel.kernelMeta) EXCEPT !.lastActive = now]

InitMeta(st) ==
  [SetStore(st, "kernelMeta", "KERNEL_META", LoadedMeta(st.ls, st.now))
     EXCEPT !.k.pulseSequence = loadState(st.ls, "PULSE_SEQUENCE", 0)]

InitStores(st) ==
  [st EXCEPT
     !.k.identity = st.ret,
     !.k.identityHistory = loadState(st.ls, "IDENTITY_HISTORY", <<>>),
     !.k.contentStore = loadState(st.ls, "CONTENT_STORE", EmptyMap),
     !.k.pulseStore = loadState(st.ls, "PULSE_STORE", EmptyMap),
     !.k.addressIndex = loadState(st.ls, "ADDRESS_INDEX", EmptyMap),
     !.k.slipLedger = loadState(st.ls, "SLIP_LEDGER", EmptyLedger),
     !.k.slipLedgerDefined = TRUE]

InitSocial(st) ==
  [st EXCEPT
     !.k.socialGraph = loadState(st.ls, "SOCIAL_GRAPH", EmptySocialGraph),
     !.k.feeds = loadState(st.ls, "FEEDS", EmptyMap),
     !.k.channels = loadState(st.ls, "CHANNELS", EmptyMap)]

InitPulse(st, isNewKernel) ==
  IF isNewKernel
    THEN _emitPulseSync(st, "KERNEL_INIT",
                        <<"KERNEL_INIT", KERNEL_VERSION, st.k.identity.did>>)
    ELSE st

(* _initializeKernel from the assignment of this.identity on; an exception *)
(* of _loadOrCreateIdentity ends the constructor                           *)
InitWithIdentity(st, isNewKernel) ==
  IF st.threw
    THEN [st EXCEPT !.k = DeadKernel]
    ELSE [InitPulse(InitSocial(EnsureGenesis(InitStores(st), st.ret.did)), isNewKernel)
            EXCEPT !.k.alive = TRUE]

(* new XHEKernel() against the localStorage ls *)
_initializeKernel(ls, now, r) ==
  InitWithIdentity(
    _loadOrCreateIdentity(InitMeta(Context(DeadKernel, ls, now, r)), IsNewKernel(ls)),
    IsNewKernel(ls))

----------------------------------------------------------------------------
(* Calls in flight.  A task is one call of an async method, suspended at   *)
(* an await of the digest: pc "hash" inside the method's own sha256 call,  *)
(* pc "emit" inside _emitPulse.  `pulse' is the record built before the    *)
(* await, `local' the method's local variables; `emits' and `changed' are  *)
(* ghosts: pulses appended by the call and whether the call changed the    *)
(* kernel object.                                                          *)

Idle == [op |-> "idle", pc |-> "idle"]

NoPulse == <<>>

Task(op, pc, arg, local, pulse, emits, changed) ==
  [op |-> op, pc |-> pc, arg |-> arg, local |-> local, pulse |-> pulse,
   emits |-> emits, changed |-> changed]

NoResult == [op |-> "none", status |-> "none", value |-> <<"none">>,
             emits |-> 0, changed |-> FALSE, arg |-> <<"none">>]

Result(op, arg, status, value, emits, changed) ==
  [op |-> op, status |-> status, value |-> value, emits |-> emits,
   changed |-> changed, arg |-> arg]

(* Outcome of a segment: the context reached, the task left suspended (or  *)
(* Idle) and the result handed to the caller (or NoResult)                 *)
Suspend(st, task) == [st |-> st, task |-> task, result |-> NoResult]

Finish(st, result) == [st |-> st, task |-> Idle, result |-> result]

(* The call is suspended inside _emitPulse; st0 is the context its segment *)
(* started in, st the context with the pulse record in .ret                *)
SuspendInEmit(st0, st, op, arg, local) ==
  Suspend(st, Task(op, "emit", arg, local, st.ret, st.pulses, st.k # st0.k))

(* await this._emitPulse(type, payload), up to the digest *)
AwaitEmit(st0, st, op, arg, local, type, payload) ==
  SuspendInEmit(st0, _emitPulseBegin(st, type, payload), op, arg, local)

(* await sha256(content) inside the method itself *)
AwaitHash(st, op, arg) ==
  Suspend(st, Task(op, "hash", arg, <<>>, NoPulse, 0, FALSE))

(* throw new Error(message) before anything was changed *)
Throw(st, op, arg, message) ==
  Finish(st, Result(op, arg, "error", <<"Error", message>>, 0, FALSE))

----------------------------------------------------------------------------
(* Slip system *)

getSlipBalance(k) == BalanceOf(k.slipLedger, k.identity.did)

MintTx(id, to, amount, now) ==
  [id |-> id, type |-> "MINT", from |-> NoDid, to |-> to, amount |-> amount,
   timestamp |-> now, address |-> Tok(<<"slip://">>) \o id]

TransferTx(id, from, to, amount, now) ==
  [id |-> id, type |-> "TRANSFER", from |-> from, to |-> to, amount |-> amount,
   timestamp |-> now, address |-> Tok(<<"slip://">>) \o id]

(* a credit that overwrites the balance instead of adding to it *)
CreditOverwrites(ledger, did, amount) ==
  [ledger EXCEPT !.balances = Put(@, did, amount)]

(* balances[to] = (balances[to] || 0) + amount *)
Credit(ledger, did, amount) ==
  [ledger EXCEPT !.balances = Put(@, did, BalanceOf(ledger, did) + amount)]

(* balances[from] -= amount *)
Debit(ledger, did, amount) ==
  [ledger EXCEPT !.balances = Put(@, did, ledger.balances[did] - amount)]

PushTx(ledger, tx) == [ledger EXCEPT !.transactions = Append(@, tx)]

(* a mint that records its transaction twice *)
MintRecordedTwice(ledger, tx) == PushTx(PushTx(Credit(ledger, tx.to, tx.amount), tx), tx)

MintLedger(ledger, tx) == PushTx(Credit(ledger, tx.to, tx.amount), tx)

TransferLedger(ledger, tx) ==
  PushTx(Credit(Debit(ledger, tx.from, tx.amount), tx.to, tx.amount), tx)

(* a transferSlips that never refuses for lack of slips *)
NeverInsufficient(fromBalance, amount) == FALSE

(* if (fromBalance < amount) throw *)
InsufficientSlips(fromBalance, amount) == fromBalance < amount

(* a check that lets an amount of 0 through *)
OnlyNegative(amount) == amount < 0

(* if (amount <= 0) throw *)
NotPositive(amount) == amount <= 0

(* mintSlips from the ledger update to the await in _emitPulse *)
Minted(st0, st, amount, tx) ==
  AwaitEmit(st0, st, "mintSlips", <<"mintSlips", amount>>, tx, "SLIP_MINT",
            <<"SLIP_MINT", amount, getSlipBalance(st.k)>>)

MintWith(st, amount, tx) ==
  Minted(st, SetStore(TakeRandom(st), "slipLedger", "SLIP_LEDGER",
                      MintLedger(st.k.slipLedger, tx)), amount, tx)

mintSlips(st, amount) ==
  IF NotPositive(amount)
    THEN Throw(st, "mintSlips", <<"mintSlips", amount>>, "Amount must be positive")
    ELSE MintWith(st, amount,
                  MintTx(randomHex(st), st.k.identity.did, amount, timestamp(st)))

(* a transferSlips that persists the ledger after the debit and again     *)
(* after the credit                                                        *)
TransferInTwoWrites(st, toDid, amount, tx) ==
  AwaitEmit(st,
            SetStore(SetStore(TakeRandom(st), "slipLedger", "SLIP_LEDGER",
                              Debit(st.k.slipLedger, tx.from, tx.amount)),
                     "slipLedger", "SLIP_LEDGER", TransferLedger(st.k.slipLedger, tx)),
            "transferSlips", <<"transferSlips", toDid, amount>>, tx,
            "SLIP_TRANSFER", <<"SLIP_TRANSFER", toDid, amount>>)

(* transferSlips from the ledger update to the await in _emitPulse *)
TransferWith(st, toDid, amount, tx) ==
  AwaitEmit(st, SetStore(TakeRandom(st), "slipLedger", "SLIP_LEDGER",
                         TransferLedger(st.k.slipLedger, tx)),
            "transferSlips", <<"transferSlips", toDid, amount>>, tx,
            "SLIP_TRANSFER", <<"SLIP_TRANSFER", toDid, amount>>)

transferSlips(st, toDid, amount) ==
  IF NotPositive(amount)
    THEN Throw(st, "transferSlips", <<"transferSlips", toDid, amount>>,
               "Amount must be positive")
  ELSE IF InsufficientSlips(getSlipBalance(st.k), amount)
    THEN Throw(st, "transferSlips", <<"transferSlips", toDid, amount>>,
               "Insufficient slips")
  ELSE TransferWith(st, toDid, amount,
                    TransferTx(randomHex(st), st.k.identity.did, toDid, amount,
                               timestamp(st)))

----------------------------------------------------------------------------
(* Identity *)

ArchivedIdentity(identity, now) ==
  [did |-> identity.did, created |-> identity.created, archivedAt |-> now,
   reason |-> "USER_REGENERATE"]

(* an archive that keeps the last identity only *)
ArchiveOnlyLast(st) ==
  SetStore(st, "identityHistory", "IDENTITY_HISTORY",
           <<ArchivedIdentity(st.k.identity, timestamp(st))>>)

(* this.identityHistory.push(...); saveState(IDENTITY_HISTORY, ...) *)
ArchiveIdentity(st) ==
  SetStore(st, "identityHistory", "IDENTITY_HISTORY",
           Append(st.k.identityHistory, ArchivedIdentity(st.k.identity, timestamp(st))))

(* this.identity = this._createIdentity(false) *)
AssignIdentity(st) == [st EXCEPT !.k.identity = st.ret]

Regenerated(st0, st) ==
  AwaitEmit(st0, st, "regenerateIdentity", <<"regenerateIdentity">>,
            st0.k.identity.did, "IDENTITY_REGENERATE",
            <<"IDENTITY_REGENERATE", st0.k.identity.did, st.k.identity.did,
              Len(st.k.identityHistory)>>)

regenerateIdentity(st) ==
  Regenerated(st, AssignIdentity(_createIdentity(ArchiveIdentity(st), FALSE)))

----------------------------------------------------------------------------
(* URI parser *)

WS == <<"ws">>       \* a whitespace character

RECURSIVE TrimStart(_)
TrimStart(str) ==
  IF str # <<>> /\ Head(str) = WS THEN TrimStart(Tail(str)) ELSE str

RECURSIVE TrimEnd(_)
TrimEnd(str) ==
  IF str # <<>> /\ str[Len(str)] = WS
    THEN TrimEnd(SubSeq(str, 1, Len(str) - 1)) ELSE str

Trim(str) == TrimEnd(TrimStart(str))

StartsWith(str, prefix) == str # <<>> /\ Head(str) = prefix

Slashes(str) == {i \in 1..Len(str) : str[i] = <<"/">>}

FirstSlash(str) == CHOOSE i \in Slashes(str) : \A j \in Slashes(str) : i <= j

NoParse == [scheme |-> "null", sequence |-> <<>>, hash |-> <<>>]

Parsed(scheme, sequence, hash) ==
  [scheme |-> scheme, sequence |-> sequence, hash |-> hash]

parseAddress(address) ==
  LET trimmed == Trim(address)
      rest == Tail(trimmed)
  IN IF address = <<>> THEN NoParse
     ELSE IF StartsWith(trimmed, <<"xhe://">>) THEN Parsed("xhe", <<>>, rest)
     ELSE IF StartsWith(trimmed, <<"did:xhe:">>) THEN Parsed("did:xhe", <<>>, rest)
     ELSE IF StartsWith(trimmed, <<"pulse://">>)
       THEN IF Slashes(rest) # {}
              THEN Parsed("pulse", SubSeq(rest, 1, FirstSlash(rest) - 1),
                          SubSeq(rest, FirstSlash(rest) + 1, Len(rest)))
              ELSE Parsed("pulse", <<>>, rest)
     ELSE IF StartsWith(trimmed, <<"ipfs://">>) THEN Parsed("ipfs", <<>>, rest)
     ELSE IF StartsWith(trimmed, <<"slip://">>) THEN Parsed("slip", <<>>, rest)
     ELSE IF StartsWith(trimmed, <<"feed://">>) THEN Parsed("feed", <<>>, rest)
     ELSE IF StartsWith(trimmed, <<"channel://">>) THEN Parsed("channel", <<>>, rest)
     ELSE NoParse

----------------------------------------------------------------------------
(* Address generation *)

(* hash.slice(0, 32): the first half of the 64 hex characters of a digest *)
HashSlice32(hash) == Tok(<<"slice32", hash>>)

(* content.slice(0, 50) + (content.length > 50 ? '...' : '') *)
Preview(content) ==
  IF Len(content) > PREVIEW_LENGTH
    THEN SubSeq(content, 1, PREVIEW_LENGTH) \o Tok(<<"...">>)
    ELSE content

ContentEntry(content, now, author, scheme, postMeta) ==
  [content |-> content, timestamp |-> now, author |-> author,
   scheme |-> scheme, postMeta |-> postMeta]

IndexEntry(hash, scheme, now, content) ==
  [hash |-> hash, type |-> scheme, timestamp |-> now, preview |-> Preview(content)]

GENERATE_SCHEMES == {"xhe", "did:xhe", "pulse", "ipfs"}

(* the switch (scheme) of generateAddress *)
AddressFor(scheme, hash, sequence) ==
  CASE scheme = "xhe" -> Tok(<<"xhe://">>) \o hash
    [] scheme = "did:xhe" -> Tok(<<"did:xhe:">>) \o HashSlice32(hash)
    [] scheme = "pulse" -> Tok(<<"pulse://">>) \o sequence \o Tok(<<"/">>) \o hash
    [] scheme = "ipfs" -> Tok(<<"ipfs://">>) \o hash
    [] OTHER -> <<>>

(* a generateAddress that writes the index entry only *)
SkipContent(st, hash, entry) == st

(* this.contentStore[hash] = entry; saveState(CONTENT_STORE, ...) *)
PutContent(st, hash, entry) ==
  SetStore(st, "contentStore", "CONTENT_STORE", Put(st.k.contentStore, hash, entry))

(* this.addressIndex[address] = entry; saveState(ADDRESS_INDEX, ...) *)
PutIndex(st, address, entry) ==
  SetStore(st, "addressIndex", "ADDRESS_INDEX", Put(st.k.addressIndex, address, entry))

(* a generateAddress that hashes whatever content it is given *)
GenerateUnchecked(st, content, scheme, sequenceOption) ==
  AwaitHash(st, "generateAddress", <<"generateAddress", content, scheme, sequenceOption>>)

(* generateAddress up to the await of sha256(content); options.sequence is *)
(* <<>> when the caller gives none                                         *)
generateAddress(st, content, scheme, sequenceOption) ==
  IF content = <<>>
    THEN Throw(st, "generateAddress",
               <<"generateAddress", content, scheme, sequenceOption>>,
               "Content must be a non-empty string")
    ELSE AwaitHash(st, "generateAddress",
                   <<"generateAddress", content, scheme, sequenceOption>>)

(* options.sequence || this._getNextSequence(), in the pulse case only *)
GenerateSequence(st, scheme, sequenceOption) ==
  IF scheme = "pulse" /\ sequenceOption = <<>>
    THEN _getNextSequence(st)
    ELSE [st EXCEPT !.ret = sequenceOption]

(* generateAddress from the content store write to the await in _emitPulse *)
GenerateStore(st0, st, content, scheme, hash, address) ==
  AwaitEmit(st0,
            PutIndex(PutContent(st, hash,
                                ContentEntry(content, timestamp(st), st.k.identity.did,
                                             scheme, <<>>)),
                     address, IndexEntry(hash, scheme, timestamp(st), content)),
            "generateAddress", <<"generateAddress", content, scheme>>,
            <<address, hash, timestamp(st)>>, "ADDRESS_GENERATE",
            <<"ADDRESS_GENERATE", address, scheme>>)

(* a generateAddress whose digest covers the sequence counter too *)
GenerateSalted(st0, st, content, scheme) ==
  GenerateStore(st0, st, content, scheme,
                sha256(content \o Tok(<<st.k.pulseSequence>>)),
                AddressFor(scheme, sha256(content \o Tok(<<st.k.pulseSequence>>)), st.ret))

GenerateWithSequence(st0, st, content, scheme) ==
  GenerateStore(st0, st, content, scheme, sha256(content),
                AddressFor(scheme, sha256(content), st.ret))

(* generateAddress from the digest of the content to the await in _emitPulse *)
generateAddressHashed(st, task) ==
  IF task.arg[3] \notin GENERATE_SCHEMES
    THEN Throw(st, "generateAddress", task.arg, "Unknown scheme")
    ELSE GenerateWithSequence(st, GenerateSequence(st, task.arg[3], task.arg[4]),
                              task.arg[2], task.arg[3])

----------------------------------------------------------------------------
(* Address resolution *)

RESOLUTION_STATE ==
  {"RESOLVED", "KNOWN_BUT_UNAVAILABLE", "UNKNOWN", "INVALID", "FORBIDDEN"}

(* a result whose UNKNOWN is reported as FORBIDDEN *)
ResolutionDenied(state, type, content, metadata, address) ==
  [state |-> IF state = "UNKNOWN" THEN "FORBIDDEN" ELSE state, type |-> type,
   content |-> content, metadata |-> metadata, address |-> address]

Resolution(state, type, content, metadata, address) ==
  [state |-> state, type |-> type, content |-> content, metadata |-> metadata,
   address |-> address]

(* The stores are plain objects: store[key] is truthy for a key the store  *)
(* holds and for a property name every object inherits; the inherited      *)
(* value is a function, whose fields and whose JSON text are undefined     *)
ProtoKey == Tok(<<"constructor">>)

Inherited(key) == key = ProtoKey

Undefined == <<"undefined">>

_resolveContentAddress(k, address, parsed) ==
  IF Has(k.contentStore, parsed.hash)
    THEN LET entry == k.contentStore[parsed.hash]
         IN Resolution("RESOLVED", parsed.scheme, entry.content,
                       <<"content", entry.timestamp, entry.author, entry.scheme>>,
                       address)
  ELSE IF Inherited(parsed.hash)
    THEN Resolution("RESOLVED", parsed.scheme, Undefined,
                    <<"content", Undefined, Undefined, Undefined>>, address)
  ELSE IF Has(k.addressIndex, address)
    THEN Resolution("KNOWN_BUT_UNAVAILABLE", parsed.scheme, <<>>,
                    <<"index", k.addressIndex[address]>>, address)
  ELSE Resolution("UNKNOWN", parsed.scheme, <<>>, <<"none">>, address)

(* an identity resolution whose content counts the pulses of the store *)
IdentityWithPulseCount(k, address, parsed) ==
  IF address = k.identity.did
    THEN Resolution("RESOLVED", "did:xhe",
                    Tok(<<"json", k.identity.did, Cardinality(DOMAIN k.pulseStore)>>),
                    <<"own", TRUE, k.identity.created>>, address)
    ELSE Resolution("UNKNOWN", "did:xhe", <<>>, <<"none">>, address)

(* an identity lookup that serves a generated address from the content     *)
(* store                                                                   *)
IdentityOrContent(k, address, parsed) ==
  IF Has(k.addressIndex, address) /\ Has(k.contentStore, k.addressIndex[address].hash)
    THEN Resolution("RESOLVED", "did:xhe", k.contentStore[k.addressIndex[address].hash].content,
                    <<"content">>, address)
    ELSE Resolution("UNKNOWN", "did:xhe", <<>>, <<"none">>, address)

_resolveIdentityAddress(k, address, parsed) ==
  IF address = k.identity.did
    THEN Resolution("RESOLVED", "did:xhe",
                    Tok(<<"json", k.identity.did, k.identity.created,
                          BalanceOf(k.slipLedger, k.identity.did)>>),
                    <<"own", TRUE, k.identity.created>>, address)
  ELSE IF \E i \in 1..Len(k.identityHistory) : k.identityHistory[i].did = address
    THEN LET first == CHOOSE i \in 1..Len(k.identityHistory) :
                        /\ k.identityHistory[i].did = address
                        /\ \A j \in 1..(i - 1) : k.identityHistory[j].did # address
             historical == k.identityHistory[first]
         IN Resolution("KNOWN_BUT_UNAVAILABLE", "did:xhe", <<>>,
                       <<"historical", historical.archivedAt, historical.reason>>,
                       address)
  ELSE IF address \in Range(k.socialGraph.following)
          \/ address \in Range(k.socialGraph.followers)
    THEN Resolution("KNOWN_BUT_UNAVAILABLE", "did:xhe", <<>>, <<"none">>, address)
  ELSE Resolution("UNKNOWN", "did:xhe", <<>>, <<"none">>, address)

_resolvePulseAddress(k, address, parsed) ==
  LET pulseKey == IF parsed.sequence # <<>>
                    THEN parsed.sequence \o Tok(<<"/">>) \o parsed.hash
                    ELSE parsed.hash
  IN IF Has(k.pulseStore, pulseKey)
       THEN LET pulse == k.pulseStore[pulseKey]
            IN Resolution("RESOLVED", "pulse", Tok(<<"json", pulse>>),
                          <<"pulse", pulse.type, pulse.author, pulse.timestamp,
                            pulse.sequence>>, address)
     ELSE IF Inherited(pulseKey)
       THEN Resolution("RESOLVED", "pulse", Undefined,
                       <<"pulse", Undefined, Undefined, Undefined, Undefined>>,
                       address)
       ELSE Resolution("UNKNOWN", "pulse", <<>>, <<"none">>, address)

_resolveSlipAddress(k, address, parsed) ==
  LET txs == k.slipLedger.transactions
  IN IF \E i \in 1..Len(txs) : txs[i].id = parsed.hash
       THEN LET first == CHOOSE i \in 1..Len(txs) :
                           /\ txs[i].id = parsed.hash
                           /\ \A j \in 1..(i - 1) : txs[j].id # parsed.hash
            IN Resolution("RESOLVED", "slip", Tok(<<"json", txs[first]>>),
                          <<"tx", txs[first]>>, address)
       ELSE Resolution("UNKNOWN", "slip", <<>>, <<"none">>, address)

_resolveFeedAddress(k, address, parsed) ==
  IF Has(k.feeds, parsed.hash)
    THEN Resolution("RESOLVED", "feed", Tok(<<"json", k.feeds[parsed.hash]>>),
                    <<"feed", k.feeds[parsed.hash]>>, address)
  ELSE IF Inherited(parsed.hash)
    THEN Resolution("RESOLVED", "feed", Undefined, <<"feed", ProtoKey>>, address)
    ELSE Resolution("UNKNOWN", "feed", <<>>, <<"none">>, address)

_resolveChannelAddress(k, address, parsed) ==
  IF Has(k.channels, parsed.hash)
    THEN Resolution("RESOLVED", "channel", Tok(<<"json", k.channels[parsed.hash]>>),
                    <<"channel", k.channels[parsed.hash]>>, address)
  ELSE IF Inherited(parsed.hash)
    THEN Resolution("RESOLVED", "channel", Undefined, <<"channel", ProtoKey>>, address)
    ELSE Resolution("UNKNOWN", "channel", <<>>, <<"none">>, address)

(* the switch of resolveAddress, run after the awaited _emitPulse *)
ResolveScheme(k, address, parsed) ==
     CASE parsed.scheme \in {"xhe", "ipfs"} -> _resolveContentAddress(k, address, parsed)
       [] parsed.scheme = "did:xhe" -> _resolveIdentityAddress(k, address, parsed)
       [] parsed.scheme = "pulse" -> _resolvePulseAddress(k, address, parsed)
       [] parsed.scheme = "slip" -> _resolveSlipAddress(k, address, parsed)
       [] parsed.scheme = "feed" -> _resolveFeedAddress(k, address, parsed)
       [] parsed.scheme = "channel" -> _resolveChannelAddress(k, address, parsed)
       [] OTHER -> Resolution("UNKNOWN", parsed.scheme, <<>>, <<"none">>, address)

ResolveDispatch(k, address) == ResolveScheme(k, address, parseAddress(address))

(* a resolveAddress that records the address it is asked for in the index *)
ResolveAndIndex(st, address) ==
  IF parseAddress(address).scheme = "null"
    THEN Finish(st, Result("resolveAddress", <<"resolveAddress", address>>, "ok",
                           <<"resolution",
                             Resolution("INVALID", "unknown", <<>>, <<"none">>, address)>>,
                           0, FALSE))
    ELSE AwaitEmit(st, PutIndex(st, address, IndexEntry(<<>>, "seen", timestamp(st), <<>>)),
                   "resolveAddress", <<"resolveAddress", address>>, <<>>,
                   "ADDRESS_RESOLVE",
                   <<"ADDRESS_RESOLVE", address, parseAddress(address).scheme>>)

(* a resolveAddress that looks the address up without the audit pulse *)
ResolveWithoutAudit(st, address) ==
  Finish(st, Result("resolveAddress", <<"resolveAddress", address>>, "ok",
                    <<"resolution", ResolveDispatch(st.k, address)>>, 0, FALSE))

(* address.slice(0, 40): every address of the model is shorter *)
resolveAddress(st, address) ==
  IF parseAddress(address).scheme = "null"
    THEN Finish(st, Result("resolveAddress", <<"resolveAddress", address>>, "ok",
                           <<"resolution",
                             Resolution("INVALID", "unknown", <<>>, <<"none">>, address)>>,
                           0, FALSE))
    ELSE AwaitEmit(st, st, "resolveAddress", <<"resolveAddress", address>>, <<>>,
                   "ADDRESS_RESOLVE",
                   <<"ADDRESS_RESOLVE", address, parseAddress(address).scheme>>)

----------------------------------------------------------------------------
(* Social system *)

(* `personal_${did.slice(8, 16)}`: the first 8 hex characters of the did *)
PersonalFeedId(did) == Tok(<<"personal_">>) \o Tok(<<"slice8", did>>)

Post(id, content, hash, author, now, options) ==
  [id |-> id, type |-> "POST", content |-> content, hash |-> hash,
   author |-> author, timestamp |-> now, replyTo |-> options.replyTo,
   repostOf |-> options.repostOf, channel |-> options.channel,
   address |-> Tok(<<"xhe://">>) \o hash]

NewFeed(feedId, owner, now) ==
  [id |-> feedId, owner |-> owner, posts |-> <<>>, created |-> now]

(* options.replyTo ? POST_REPLY : options.repostOf ? POST_REPOST : POST_CREATE *)
PostPulseType(options) ==
  IF options.replyTo # <<>> THEN "POST_REPLY"
  ELSE IF options.repostOf # <<>> THEN "POST_REPOST"
  ELSE "POST_CREATE"

createPost(st, content, options) ==
  IF content = <<>>
    THEN Throw(st, "createPost", <<"createPost", content, options>>,
               "Post content required")
    ELSE AwaitHash(st, "createPost", <<"createPost", content, options>>)

(* if (!this.feeds[feedId]) this.feeds[feedId] = {...} *)
WithFeed(feeds, feedId, owner, now) ==
  IF Has(feeds, feedId) THEN feeds ELSE Put(feeds, feedId, NewFeed(feedId, owner, now))

(* posts.unshift(post) *)
Unshift(store, id, post) == [store EXCEPT ![id].posts = <<post>> \o @]

(* the personal feed of the author gets the post; saveState(FEEDS, ...) *)
PostToFeed(st, feedId, post) ==
  SetStore(st, "feeds", "FEEDS",
           Unshift(WithFeed(st.k.feeds, feedId, post.author, post.timestamp),
                   feedId, post))

Channel(id, name, owner, now) ==
  [id |-> id, name |-> name, owner |-> owner, created |-> now, posts |-> <<>>,
   members |-> <<owner>>, address |-> Tok(<<"channel://">>) \o id]

(* a createPost that opens the channel it is given when there is none *)
PostToChannelCreating(st, post) ==
  IF post.channel = <<>> THEN st
  ELSE SetStore(st, "channels", "CHANNELS",
                Unshift(IF Has(st.k.channels, post.channel) THEN st.k.channels
                        ELSE Put(st.k.channels, post.channel,
                                 Channel(post.channel, <<>>, post.author, post.timestamp)),
                        post.channel, post))

(* if (options.channel && this.channels[options.channel]) ... *)
PostToChannel(st, post) ==
  IF post.channel # <<>> /\ Has(st.k.channels, post.channel)
    THEN SetStore(st, "channels", "CHANNELS", Unshift(st.k.channels, post.channel, post))
    ELSE st

(* createPost up to saveState(FEEDS, ...): content store and personal feed *)
PostStored(st, post) ==
  PostToFeed(PutContent(st, post.hash,
                        ContentEntry(post.content, post.timestamp, post.author,
                                     "xhe", <<post.id, "POST">>)),
             PersonalFeedId(post.author), post)

(* this.channels[options.channel] is truthy for a property name every      *)
(* object inherits too; its .posts is undefined and .unshift raises a      *)
(* TypeError, after the content store and the feed were written            *)
PostStore(st0, st, post, options) ==
  IF post.channel # <<>> /\ ~Has(st.k.channels, post.channel) /\ Inherited(post.channel)
    THEN Finish(PostStored(st, post),
                Result("createPost", <<"createPost", post.content, options>>, "error",
                       <<"TypeError">>, 0, TRUE))
    ELSE AwaitEmit(st0, PostToChannel(PostStored(st, post), post),
                   "createPost", <<"createPost", post.content, options>>, post,
                   PostPulseType(options),
                   <<PostPulseType(options), post.id, post.hash, Preview(post.content)>>)

(* createPost from the digest of the content to the await in _emitPulse *)
createPostHashed(st, task) ==
  PostStore(st, TakeRandom(st),
            Post(randomHex(st), task.arg[2], sha256(task.arg[2]), st.k.identity.did,
                 timestamp(st), task.arg[3]),
            task.arg[3])

ChannelStore(st, channel) ==
  AwaitEmit(st, SetStore(TakeRandom(st), "channels", "CHANNELS",
                         Put(st.k.channels, channel.id, channel)),
            "createChannel", <<"createChannel", channel.name>>, channel,
            "CHANNEL_CREATE", <<"CHANNEL_CREATE", channel.id, channel.name>>)

(* the channel id is randomHex(12) *)
createChannel(st, name) ==
  ChannelStore(st, Channel(randomHex(st), name, st.k.identity.did, timestamp(st)))

Includes(list, x) == x \in Range(list)

(* list.filter(d => d !== did) *)
RECURSIVE Without(_, _)
Without(list, did) ==
  IF list = <<>> THEN <<>>
  ELSE IF Head(list) = did THEN Without(Tail(list), did)
  ELSE <<Head(list)>> \o Without(Tail(list), did)

(* this.socialGraph.following = following; saveState(SOCIAL_GRAPH, ...) *)
SetFollowing(st, following) ==
  SetStore(st, "socialGraph", "SOCIAL_GRAPH",
           [st.k.socialGraph EXCEPT !.following = following])

(* a follow that does not look at the blocked list *)
FollowIgnoringBlocked(st, did) ==
  IF did = st.k.identity.did
    THEN Throw(st, "follow", <<"follow", did>>, "Cannot follow self")
  ELSE IF Includes(st.k.socialGraph.following, did)
    THEN Finish(st, Result("follow", <<"follow", did>>, "ok", <<"undefined">>, 0, FALSE))
  ELSE AwaitEmit(st, SetFollowing(st, Append(st.k.socialGraph.following, did)),
                 "follow", <<"follow", did>>, <<>>, "FOLLOW", <<"FOLLOW", did>>)

(* a follow that does not look at the following list *)
FollowAgain(st, did) ==
  IF did = st.k.identity.did
    THEN Throw(st, "follow", <<"follow", did>>, "Cannot follow self")
  ELSE IF Includes(st.k.socialGraph.blocked, did)
    THEN Throw(st, "follow", <<"follow", did>>, "Cannot follow blocked identity")
  ELSE AwaitEmit(st, SetFollowing(st, Append(st.k.socialGraph.following, did)),
                 "follow", <<"follow", did>>, <<>>, "FOLLOW", <<"FOLLOW", did>>)

follow(st, did) ==
  IF did = st.k.identity.did
    THEN Throw(st, "follow", <<"follow", did>>, "Cannot follow self")
  ELSE IF Includes(st.k.socialGraph.following, did)
    THEN Finish(st, Result("follow", <<"follow", did>>, "ok", <<"undefined">>, 0, FALSE))
  ELSE IF Includes(st.k.socialGraph.blocked, did)
    THEN Throw(st, "follow", <<"follow", did>>, "Cannot follow blocked identity")
  ELSE AwaitEmit(st, SetFollowing(st, Append(st.k.socialGraph.following, did)),
                 "follow", <<"follow", did>>, <<>>, "FOLLOW", <<"FOLLOW", did>>)

unfollow(st, did) ==
  AwaitEmit(st, SetFollowing(st, Without(st.k.socialGraph.following, did)),
            "unfollow", <<"unfollow", did>>, <<>>, "UNFOLLOW", <<"UNFOLLOW", did>>)

----------------------------------------------------------------------------
(* Address index *)

IndexCleared(st0, st) ==
  Finish(st, Result("clearAddressIndex", <<"clearAddressIndex">>, "ok",
                    <<"undefined">>, 0, st.k # st0.k))

(* a clearAddressIndex that empties the content store with the index *)
ClearIndexAndContent(st) ==
  IndexCleared(st, _emit(SetStore(SetStore(st, "addressIndex", "ADDRESS_INDEX", EmptyMap),
                                  "contentStore", "CONTENT_STORE", EmptyMap),
                         "kernel:index:cleared", <<>>))

clearAddressIndex(st) ==
  IndexCleared(st, _emit(SetStore(st, "addressIndex", "ADDRESS_INDEX", EmptyMap),
                         "kernel:index:cleared", <<>>))

----------------------------------------------------------------------------
(* Export / import *)

EXPORT_VERSION == 2

(* JSON.parse(exportKernelState()): the optional stores as <<store>> *)
exportKernelState(k, now) ==
  [valid |-> TRUE, version |-> EXPORT_VERSION, exported |-> now,
   entries |-> <<>>,
   kernelMeta |-> k.kernelMeta, identity |-> k.identity,
   identityHistory |-> k.identityHistory, pulseSequence |-> k.pulseSequence,
   contentStore |-> <<k.contentStore>>, pulseStore |-> <<k.pulseStore>>,
   addressIndex |-> <<k.addressIndex>>, slipLedger |-> k.slipLedger,
   socialGraph |-> k.socialGraph, feeds |-> k.feeds, channels |-> k.channels]

(* a file of the old format: {version: 1, entries: {...}} *)
LegacyPayload(entries) ==
  [valid |-> TRUE, version |-> 1, entries |-> <<entries>>,
   contentStore |-> <<>>, pulseStore |-> <<>>, addressIndex |-> <<>>]

(* an exported file edited by hand: the same pulse ids, other payloads *)
ForgedPulses(pulseStore) ==
  [id \in DOMAIN pulseStore |-> [pulseStore[id] EXCEPT !.payload = <<"forged">>]]

Forged(snapshot) ==
  [snapshot EXCEPT !.pulseStore = <<ForgedPulses(snapshot.pulseStore[1])>>]

(* a file that JSON.parse rejects *)
MalformedPayload ==
  [valid |-> FALSE, version |-> 0, entries |-> <<>>,
   contentStore |-> <<>>, pulseStore |-> <<>>, addressIndex |-> <<>>]

MergeOverwriting(store, incoming) == incoming @@ store

(* forEach(([key, value]) => { if (!store[key]) store[key] = value }) *)
MergeMissing(store, incoming) == store @@ incoming

(* Object.assign(store, incoming) *)
ObjectAssign(store, incoming) == incoming @@ store

MissingKeys(store, incoming) == DOMAIN incoming \ DOMAIN store

(* an import that leaves the pulse store alone *)
ImportUnlessPulses(st, field, key, optional) ==
  IF optional = <<>> \/ field = "pulseStore" THEN st
  ELSE SetStore(st, field, key, MergeMissing(st.k[field], optional[1]))

(* if (data.<store>) { merge; saveState(<key>, this.<store>) } *)
ImportStore(st, field, key, optional) ==
  IF optional = <<>> THEN st
  ELSE SetStore(st, field, key, MergeMissing(st.k[field], optional[1]))

(* imported++ for every content entry that was missing *)
ImportedCount(k, data) ==
  IF data.contentStore = <<>> THEN 0
  ELSE Cardinality(MissingKeys(k.contentStore, data.contentStore[1]))

ImportArg(data) ==
  <<"importKernelState", data.version, data.valid, data.pulseStore, data.entries # <<>>>>

ImportFinish(st0, st, data, value) ==
  Finish(st, Result("importKernelState", ImportArg(data), "ok", value, 0, st.k # st0.k))

(* an import that knows the current format only *)
ImportWithoutMigration(st, data) ==
  IF ~data.valid
    THEN ImportFinish(st, st, data, <<"imported", 0, "errors">>)
  ELSE ImportFinish(st,
                    ImportStore(
                      ImportStore(
                        ImportStore(st, "contentStore", "CONTENT_STORE", data.contentStore),
                        "addressIndex", "ADDRESS_INDEX", data.addressIndex),
                      "pulseStore", "PULSE_STORE", data.pulseStore),
                    data, <<"imported", ImportedCount(st.k, data), "full">>)

importKernelState(st, data) ==
  IF ~data.valid
    THEN ImportFinish(st, st, data, <<"imported", 0, "errors">>)
  ELSE IF data.version # EXPORT_VERSION /\ data.entries # <<>>
    THEN ImportFinish(st,
                      SetStore(st, "addressIndex", "ADDRESS_INDEX",
                               ObjectAssign(st.k.addressIndex, data.entries[1])),
                      data,
                      <<"imported", Cardinality(DOMAIN data.entries[1]), "migrated">>)
  ELSE ImportFinish(st,
                    ImportStore(
                      ImportStore(
                        ImportStore(st, "contentStore", "CONTENT_STORE", data.contentStore),
                        "addressIndex", "ADDRESS_INDEX", data.addressIndex),
                      "pulseStore", "PULSE_STORE", data.pulseStore),
                    data, <<"imported", ImportedCount(st.k, data), "full">>)

----------------------------------------------------------------------------
(* Kernel reset *)

RECURSIVE RemoveKeys(_, _, _)
RemoveKeys(st, keys, preserveIdentity) ==
  IF keys = <<>> THEN st
  ELSE IF preserveIdentity /\ Head(keys) \in {"IDENTITY", "IDENTITY_HISTORY"}
    THEN RemoveKeys(st, Tail(keys), preserveIdentity)
  ELSE RemoveKeys(removeItem(st, Head(keys)), Tail(keys), preserveIdentity)

resetKernel(st, preserveIdentity) ==
  AwaitEmit(st, st, "resetKernel", <<"resetKernel", preserveIdentity>>, <<>>,
            "KERNEL_RESET", <<"KERNEL_RESET", preserveIdentity, timestamp(st)>>)

(* time passes *)
Tick(st) == [st EXCEPT !.now = @ + 1]

ResetMemory(st) ==
  [st EXCEPT
     !.k.pulseSequence = 0,
     !.k.contentStore = EmptyMap,
     !.k.pulseStore = EmptyMap,
     !.k.addressIndex = EmptyMap,
     !.k.slipLedger = EmptyLedger,
     !.k.socialGraph = EmptySocialGraph,
     !.k.feeds = EmptyMap,
     !.k.channels = EmptyMap]

(* a reset that creates the new identity and keeps the history *)
ResetKeepingHistory(st, preserveIdentity) ==
  IF preserveIdentity THEN st ELSE AssignIdentity(_createIdentity(st, FALSE))

(* if (!preserveIdentity) { identityHistory = []; identity = _createIdentity(false) } *)
ResetIdentity(st, preserveIdentity) ==
  IF preserveIdentity THEN st
  ELSE AssignIdentity(_createIdentity([st EXCEPT !.k.identityHistory = <<>>], FALSE))

(* resetKernel after the awaited _emitPulse *)
resetKernelWipe(st, preserveIdentity) ==
  _emit(ResetIdentity(ResetMemory(RemoveKeys(Tick(st), STORAGE_KEYS, preserveIdentity)),
                      preserveIdentity),
        "kernel:reset", <<preserveIdentity>>)

----------------------------------------------------------------------------
(* The part of an async method that runs when the digest awaited in        *)
(* _emitPulse arrives: the rest of _emitPulse, then the rest of the method *)

(* what the method does after `await this._emitPulse(...)' *)
AfterEmit(st, task) ==
  CASE task.op = "regenerateIdentity" ->
         _emit(st, "kernel:identity:changed",
               <<task.local, st.k.identity.did, st.k.identityHistory>>)
    [] task.op = "resetKernel" -> resetKernelWipe(st, task.arg[2])
    [] OTHER -> st

(* what the method returns: st1 is the context when _emitPulse returned,   *)
(* st2 the context at the return of the method                             *)
ReturnValue(st1, st2, task) ==
  CASE task.op = "generateAddress" ->
         <<"generated", task.local[1], task.local[2], task.local[3], st1.ret.id>>
    [] task.op = "resolveAddress" -> <<"resolution", ResolveDispatch(st1.k, task.arg[2])>>
    [] task.op = "regenerateIdentity" -> <<"identity", st2.k.identity>>
    [] task.op \in {"mintSlips", "transferSlips"} -> <<"tx", task.local>>
    [] task.op = "createPost" -> <<"post", task.local>>
    [] task.op = "createChannel" -> <<"channel", task.local>>
    [] task.op \in {"follow", "unfollow"} -> <<"graph", st2.k.socialGraph>>
    [] OTHER -> <<"undefined">>

Returned(st0, st1, st2, task) ==
  Finish(st2, Result(task.op, task.arg, "ok", ReturnValue(st1, st2, task),
                     task.emits + st2.pulses, task.changed \/ st2.k # st0.k))

AfterEmitted(st0, st1, task) == Returned(st0, st1, AfterEmit(st1, task), task)

EmitDone(st, task) == AfterEmitted(st, _emitPulseEnd(st, task.pulse), task)

(* The part that runs when the digest awaited by the method itself arrives *)
HashDone(st, task) ==
  IF task.op = "generateAddress"
    THEN generateAddressHashed(st, task)
    ELSE createPostHashed(st, task)


----------------------------------------------------------------------------
(* State machine *)

Ctx == Context(kernel, storage, clock, rnd)

NoTasks == [i \in 1..limits.maxTasks |-> Idle]

FreeSlots == {i \in 1..limits.maxTasks : tasks[i].op = "idle"}

Quiescent == \A i \in 1..limits.maxTasks : tasks[i].op = "idle"

(* ghost: the segment a step ran; `arg' is the call it belongs to *)
Step(name, op, arg) == [name |-> name, op |-> op, arg |-> arg, crashed |-> FALSE]

CallArg(out) == IF out.task.op = "idle" THEN out.result.arg ELSE out.task.arg

CanCrash == hist.crashes < limits.maxCrashes

(* The page dies after the i-th localStorage write of the segment (i = 1:  *)
(* before the first)                                                       *)
CrashAt(out, i, name, op) ==
  /\ kernel' = DeadKernel
  /\ storage' = out.st.trail[i]
  /\ tasks' = NoTasks
  /\ clock' = out.st.now
  /\ rnd' = out.st.rnd
  /\ events' = <<>>
  /\ done' = NoResult
  /\ step' = [Step(name, op, CallArg(out)) EXCEPT !.crashed = TRUE]
  /\ hist' = [hist EXCEPT !.crashes = @ + 1, !.cut = TRUE, !.resolved = <<>>,
                           !.imported = @ \/ op = "importKernelState"]
  /\ UNCHANGED <<exported, limits>>

(* the sequence numbers of the pulses announced to the observers *)
PulseEventSeqs(ev) ==
  {SequenceNumber(ev[i].data.sequence) :
     i \in {j \in 1..Len(ev) : ev[j].event = "kernel:pulse"}}

MaxOf(S, floor) == CHOOSE m \in S \cup {floor} : \A x \in S \cup {floor} : x <= m

(* ghost: the last result of resolveAddress, and whether that address was  *)
(* resolved once or at least twice in a row; forgotten when anything else  *)
(* runs                                                                    *)
Resolved(out, op) ==
  IF op # "resolveAddress" THEN <<>>
  ELSE IF out.result.op # "resolveAddress" THEN hist.resolved
  ELSE <<[arg |-> out.result.arg, value |-> out.result.value,
          times |-> IF hist.resolved # <<>> /\ hist.resolved[1].arg = out.result.arg
                      THEN 2 ELSE 1]>>

(* ghost: what the successful calls of generateAddress with scheme xhe or  *)
(* ipfs returned; forgotten at the wipe of resetKernel                     *)
Generated(out, name, op) ==
  IF name = "emit" /\ op = "resetKernel" THEN {}
  ELSE IF /\ out.result.op = "generateAddress" /\ out.result.status = "ok"
          /\ out.result.arg[3] \in {"xhe", "ipfs"}
    THEN hist.generated \cup {[content |-> out.result.arg[2], scheme |-> out.result.arg[3],
                               address |-> out.result.value[2],
                               hash |-> out.result.value[3],
                               emits |-> out.result.emits]}
  ELSE hist.generated

(* ghost: calls that reached an await, resetKernel calls, whether an       *)
(* import ran, the highest sequence number given to a pulse                *)
Account(out, name, op) ==
  [hist EXCEPT
     !.calls = IF name = "call" /\ out.task.op # "idle" THEN @ + 1 ELSE @,
     !.resets = IF name = "call" /\ op = "resetKernel" THEN @ + 1 ELSE @,
     !.imported = @ \/ op = "importKernelState",
     !.maxSeq = MaxOf(PulseEventSeqs(out.st.ev), @),
     !.resolved = Resolved(out, op),
     !.generated = Generated(out, name, op)]

(* ghost: a resetKernel is suspended while another call is suspended *)
Overlapping(suspended) ==
  \E i, j \in DOMAIN suspended :
    i # j /\ suspended[i].op = "resetKernel" /\ suspended[j].op # "idle"

(* The segment runs to its end: `out' is its outcome, `slot' the task slot *)
(* it leaves its suspended call in (0 for a segment of a sync method)      *)
Complete(out, slot, name, op) ==
  /\ kernel' = out.st.k
  /\ storage' = out.st.ls
  /\ tasks' = IF slot = 0 THEN tasks ELSE [tasks EXCEPT ![slot] = out.task]
  /\ clock' = out.st.now
  /\ rnd' = out.st.rnd
  /\ events' = out.st.ev
  /\ done' = out.result
  /\ step' = Step(name, op, CallArg(out))
  /\ hist' = [Account(out, name, op) EXCEPT
                !.overlap = @ \/ Overlapping(IF slot = 0 THEN tasks
                                              ELSE [tasks EXCEPT ![slot] = out.task])]
  /\ UNCHANGED <<exported, limits>>

Segment(out, slot, name, op) ==
  \/ Complete(out, slot, name, op)
  \/ /\ CanCrash
     /\ \E i \in 1..Len(out.st.trail) : CrashAt(out, i, name, op)

(* A call of an async method: its first segment *)
Call(out, op) ==
  /\ kernel.alive
  /\ hist.calls < limits.maxCalls
  /\ FreeSlots # {}
  /\ Segment(out, CHOOSE i \in FreeSlots : \A j \in FreeSlots : i <= j, "call", op)

(* the dids a caller can know of: its own, its former ones, a stranger's *)
KnownDids(k) ==
  {k.identity.did, ForeignDid}
    \cup {k.identityHistory[i].did : i \in 1..Len(k.identityHistory)}

GenerateAddress(contents, schemes, sequenceOptions) ==
  \E content \in contents, scheme \in schemes, sequenceOption \in sequenceOptions :
    Call(generateAddress(Ctx, content, scheme, sequenceOption), "generateAddress")

ResolveAddress(addresses) ==
  \E address \in addresses : Call(resolveAddress(Ctx, address), "resolveAddress")

RegenerateIdentity == Call(regenerateIdentity(Ctx), "regenerateIdentity")

MintSlips(amounts) ==
  \E amount \in amounts : Call(mintSlips(Ctx, amount), "mintSlips")

TransferSlips(amounts) ==
  \E toDid \in KnownDids(kernel), amount \in amounts :
    Call(transferSlips(Ctx, toDid, amount), "transferSlips")

CreatePost(contents, optionses) ==
  \E content \in contents, options \in optionses :
    Call(createPost(Ctx, content, options), "createPost")

CreateChannel(names) ==
  \E name \in names : Call(createChannel(Ctx, name), "createChannel")

Follow == \E did \in KnownDids(kernel) : Call(follow(Ctx, did), "follow")

Unfollow == \E did \in KnownDids(kernel) : Call(unfollow(Ctx, did), "unfollow")

ResetKernel ==
  /\ hist.resets < limits.maxResets
  /\ \E preserveIdentity \in BOOLEAN :
       Call(resetKernel(Ctx, preserveIdentity), "resetKernel")

(* The digest a call awaits arrives *)
ResumeHash ==
  \E i \in 1..limits.maxTasks :
    /\ tasks[i].pc = "hash"
    /\ Segment(HashDone(Ctx, tasks[i]), i, "hash", tasks[i].op)

ResumeEmit ==
  \E i \in 1..limits.maxTasks :
    /\ tasks[i].pc = "emit"
    /\ Segment(EmitDone(Ctx, tasks[i]), i, "emit", tasks[i].op)

(* Sync methods *)
ClearAddressIndex ==
  /\ kernel.alive
  /\ Segment(clearAddressIndex(Ctx), 0, "sync", "clearAddressIndex")

ExportKernelState ==
  /\ kernel.alive
  /\ Len(exported) < limits.maxExports
  /\ exported' = Append(exported, exportKernelState(kernel, clock))
  /\ step' = Step("sync", "exportKernelState", <<"exportKernelState">>)
  /\ done' = Result("exportKernelState", <<"exportKernelState">>, "ok",
                     <<"snapshot">>, 0, FALSE)
  /\ events' = <<>>
  /\ hist' = [hist EXCEPT !.resolved = <<>>]
  /\ UNCHANGED <<kernel, storage, tasks, clock, rnd, limits>>

ImportKernelState(payloads) ==
  /\ kernel.alive
  /\ \E data \in payloads \cup Range(exported) \cup {Forged(x) : x \in Range(exported)} :
       Segment(importKernelState(Ctx, data), 0, "sync", "importKernelState")

(* what `new XHEKernel()' gave: the object, or the exception that escaped; *)
(* arg tells whether the store held no kernel metadata, and nothing at all *)
Constructed(ls, st) ==
  Result("constructor", <<"constructor", IsNewKernel(ls), ls = EmptyStorage>>,
         IF st.threw THEN "error" ELSE "ok",
         IF st.threw THEN <<"TypeError">> ELSE <<"kernel">>,
         st.pulses, TRUE)

(* the sequence number of the last pulse the constructor stored, if any *)
ConstructorMaxSeq(st) == IF st.pulses > 0 THEN st.k.pulseSequence ELSE 0

(* The page is loaded: a new XHEKernel is constructed against localStorage *)
(* and the calls that were in flight are gone                              *)
Load(ls, st) ==
  /\ kernel' = st.k
  /\ storage' = st.ls
  /\ rnd' = st.rnd
  /\ done' = Constructed(ls, st)
  /\ tasks' = NoTasks
  /\ events' = <<>>
  /\ step' = Step("boot", "constructor", <<"constructor">>)

Boot ==
  /\ ~kernel.alive \/ hist.boots < limits.maxBoots
  /\ Load(storage, _initializeKernel(storage, clock, rnd))
  /\ hist' = [hist EXCEPT !.boots = IF kernel.alive THEN @ + 1 ELSE @,
                           !.cut = @ \/ ~Quiescent,
                           !.maxSeq = ConstructorMaxSeq(
                                        _initializeKernel(storage, clock, rnd)),
                           !.resolved = <<>>]
  /\ UNCHANGED <<clock, exported, limits>>

(* The first load of the page: the constructor runs against an empty       *)
(* localStorage                                                            *)
FirstLoad(st) ==
  /\ kernel = st.k
  /\ storage = st.ls
  /\ rnd = st.rnd
  /\ done = Constructed(EmptyStorage, st)

InitWith(bounds) ==
  /\ limits = bounds
  /\ FirstLoad(_initializeKernel(EmptyStorage, 0, 0))
  /\ tasks = [i \in 1..bounds.maxTasks |-> Idle]
  /\ clock = 0
  /\ exported = <<>>
  /\ events = <<>>
  /\ step = Step("boot", "constructor", <<"constructor">>)
  /\ hist = [boots |-> 0, crashes |-> 0, calls |-> 0, resets |-> 0,
             imported |-> FALSE, cut |-> FALSE, maxSeq |-> 0, resolved |-> <<>>,
             generated |-> {}, overlap |-> FALSE]

(* Inputs *)
Chr(c) == <<"chr", c>>
Contents == {<<>>, <<Chr("a")>>}
Schemes == {"xhe", "did:xhe", "pulse", "ipfs", "http"}
SequenceOptions == {<<>>}
NoOptions == [replyTo |-> <<>>, repostOf |-> <<>>, channel |-> <<>>]
PostOptions == {NoOptions}
ChannelNames == {<<Chr("g")>>}
ResolveInputs == {<<Chr("x")>>, kernel.identity.did} \cup DOMAIN kernel.addressIndex
OldAddress == Tok(<<"xhe://">>) \o sha256(<<Chr("o")>>)
(* the legacy file: an address the kernel does not know, and the address   *)
(* of the content "a" with an entry written long ago                       *)
StaleAddress == Tok(<<"xhe://">>) \o sha256(<<Chr("a")>>)
OldEntries ==
  Put(Put(EmptyMap, OldAddress, IndexEntry(sha256(<<Chr("o")>>), "xhe", 0, <<Chr("o")>>)),
      StaleAddress, IndexEntry(sha256(<<Chr("a")>>), "xhe", -1, <<Chr("a")>>))
Payloads == {MalformedPayload, LegacyPayload(OldEntries)}

Init ==
  InitWith(Limits(MaxCalls, MaxTasks, MaxBoots, MaxResets, MaxCrashes, MaxExports))

Next ==
  \/ GenerateAddress(Contents, Schemes, SequenceOptions)
  \/ ResolveAddress(ResolveInputs)
  \/ RegenerateIdentity
  \/ MintSlips(Amounts)
  \/ TransferSlips(Amounts)
  \/ CreatePost(Contents, PostOptions)
  \/ CreateChannel(ChannelNames)
  \/ Follow
  \/ Unfollow
  \/ ResetKernel
  \/ ResumeHash
  \/ ResumeEmit
  \/ ClearAddressIndex
  \/ ExportKernelState
  \/ ImportKernelState(Payloads)
  \/ Boot

Spec == Init /\ [][Next]_vars

InitLedger ==
  InitWith(Limits(LedgerMaxCalls, LedgerMaxTasks, LedgerMaxBoots, LedgerMaxResets,
                  LedgerMaxCrashes, 0))

NextLedger ==
  \/ MintSlips(LedgerAmounts)
  \/ TransferSlips(LedgerAmounts)
  \/ RegenerateIdentity
  \/ ResetKernel
  \/ ResumeEmit
  \/ Boot

SpecLedger == InitLedger /\ [][NextLedger]_vars

(* Inputs of resolveAddress: what the stores hold, one address of each     *)
(* scheme that they do not hold, an inherited property name, a padded      *)
(* address, and strings that do not parse                                  *)
RESOLVE_PREFIXES ==
  {"xhe://", "did:xhe:", "pulse://", "ipfs://", "slip://", "feed://", "channel://"}

StoredAddresses(k) ==
  DOMAIN k.addressIndex
    \cup {k.pulseStore[id].address : id \in DOMAIN k.pulseStore}
    \cup {k.slipLedger.transactions[i].address : i \in 1..Len(k.slipLedger.transactions)}
    \cup {Tok(<<"feed://">>) \o id : id \in DOMAIN k.feeds}
    \cup {k.channels[id].address : id \in DOMAIN k.channels}
    \cup KnownDids(k)

UnknownAddresses == {Tok(<<prefix>>) \o <<Chr("u")>> : prefix \in RESOLVE_PREFIXES}

OddAddresses ==
  {Tok(<<"xhe://">>) \o ProtoKey, Tok(<<"pulse://">>) \o ProtoKey,
   Tok(<<"feed://">>) \o ProtoKey, <<WS>> \o kernel.identity.did}

Unparseable == {<<>>, <<Chr("x")>>}

(* pulse://<hash>, without the sequence, of the pulses in the store *)
BareHashAddresses(k) ==
  {Tok(<<"pulse://">>) \o k.pulseStore[id].hash : id \in DOMAIN k.pulseStore}

AllResolveInputs ==
  StoredAddresses(kernel) \cup {g.address : g \in hist.generated}
    \cup BareHashAddresses(kernel) \cup UnknownAddresses \cup OddAddresses \cup Unparseable

InitResolve == InitWith(Limits(ResolveMaxCalls, ResolveMaxTasks, 0, 0, 0, 0))

NextResolve ==
  \/ ResolveAddress(AllResolveInputs)
  \/ GenerateAddress({<<Chr("a")>>}, {"xhe", "ipfs"}, SequenceOptions)
  \/ RegenerateIdentity
  \/ MintSlips({60})
  \/ CreatePost({<<Chr("a")>>}, PostOptions)
  \/ CreateChannel(ChannelNames)
  \/ ClearAddressIndex
  \/ ResumeHash
  \/ ResumeEmit
  \/ Boot

SpecResolve == InitResolve /\ [][NextResolve]_vars

(* The social graph.  No method of the kernel writes the blocked list: a   *)
(* blocked did is one the graph in localStorage holds when the page loads  *)
(* (loadState(SOCIAL_GRAPH)).  The page starts on a localStorage that      *)
(* holds no graph, or a graph that blocks a stranger.                      *)
Stranger == Did(-1)

BlockingGraph == [following |-> <<>>, followers |-> <<>>, blocked |-> <<ForeignDid>>]

StoredGraphs == {<<>>, <<BlockingGraph>>}

InitSocialGraph ==
  /\ limits = Limits(SocialMaxCalls, SocialMaxTasks, SocialMaxBoots, SocialMaxResets, 0, 0)
  /\ \E graph \in StoredGraphs :
       /\ kernel = _initializeKernel([EmptyStorage EXCEPT !["SOCIAL_GRAPH"] = graph], 0, 0).k
       /\ storage = _initializeKernel([EmptyStorage EXCEPT !["SOCIAL_GRAPH"] = graph], 0, 0).ls
       /\ rnd = _initializeKernel([EmptyStorage EXCEPT !["SOCIAL_GRAPH"] = graph], 0, 0).rnd
       /\ done = Constructed([EmptyStorage EXCEPT !["SOCIAL_GRAPH"] = graph],
                             _initializeKernel([EmptyStorage EXCEPT !["SOCIAL_GRAPH"] = graph],
                                               0, 0))
  /\ tasks = [i \in 1..SocialMaxTasks |-> Idle]
  /\ clock = 0
  /\ exported = <<>>
  /\ events = <<>>
  /\ step = Step("boot", "constructor", <<"constructor">>)
  /\ hist = [boots |-> 0, crashes |-> 0, calls |-> 0, resets |-> 0,
             imported |-> FALSE, cut |-> FALSE, maxSeq |-> 0, resolved |-> <<>>,
             generated |-> {}, overlap |-> FALSE]

FollowOf(dids) == \E did \in dids : Call(follow(Ctx, did), "follow")

UnfollowOf(dids) == \E did \in dids : Call(unfollow(Ctx, did), "unfollow")

NextSocial ==
  \/ FollowOf(KnownDids(kernel) \cup {Stranger})
  \/ UnfollowOf(KnownDids(kernel) \cup {Stranger})
  \/ RegenerateIdentity
  \/ ResetKernel
  \/ ResumeEmit
  \/ Boot

SpecSocial == InitSocialGraph /\ [][NextSocial]_vars

(* Posts and channels: a post names no channel, a channel of the kernel,   *)
(* an id no channel has, or the name of an inherited property              *)
ChannelOptions(k) ==
  {NoOptions}
    \cup {[NoOptions EXCEPT !.channel = id] :
            id \in DOMAIN k.channels \cup {<<Chr("u")>>, ProtoKey}}

InitPost == InitWith(Limits(PostMaxCalls, PostMaxTasks, 0, 0, 0, 0))

NextPost ==
  \/ CreatePost({<<Chr("a")>>}, ChannelOptions(kernel))
  \/ CreateChannel(ChannelNames)
  \/ ResumeHash
  \/ ResumeEmit
  \/ Boot

SpecPost == InitPost /\ [][NextPost]_vars

(* The address index: addresses are generated and resolved, the index is  *)
(* cleared, the kernel is reset, the page dies in the middle of a segment  *)
(* and is loaded again, a legacy file is imported                          *)
InitIndex == InitWith(Limits(IndexMaxCalls, IndexMaxTasks, 0, IndexMaxResets,
                             IndexMaxCrashes, 0))

NextIndex ==
  \/ GenerateAddress({<<Chr("a")>>}, {"xhe"}, SequenceOptions)
  \/ ResolveAddress(DOMAIN kernel.addressIndex)
  \/ ClearAddressIndex
  \/ ResetKernel
  \/ ImportKernelState({LegacyPayload(OldEntries)})
  \/ ResumeHash
  \/ ResumeEmit
  \/ Boot

SpecIndex == InitIndex /\ [][NextIndex]_vars

----------------------------------------------------------------------------
(* Properties *)

(* the sequence numbers of the pulses in the pulse store *)
PulseSequenceNumbers(k) ==
  {SequenceNumber(k.pulseStore[id].sequence) : id \in DOMAIN k.pulseStore}

(* the ledger a reload of the page would find *)
DurableLedger(ls) == loadState(ls, "SLIP_LEDGER", EmptyLedger)

(* the step ran a segment of a call of `op' to its end *)
Ran(s, name, op) == s.name = name /\ s.op = op /\ ~s.crashed

(* C1: after operations with no resetKernel and no importKernelState, all  *)
(* of them completed, the sequence numbers of the pulses in the pulse      *)
(* store are exactly 1..n, n the sequence counter, without gap or repeat.  *)
C1_SequenceNumbersAreOneToN ==
  (kernel.alive /\ Quiescent /\ hist.resets = 0 /\ ~hist.imported /\ ~hist.cut)
    => /\ PulseSequenceNumbers(kernel) = 1..kernel.pulseSequence
       /\ Cardinality(DOMAIN kernel.pulseStore) = kernel.pulseSequence

StateChangingOps ==
  {"generateAddress", "regenerateIdentity", "mintSlips", "transferSlips",
   "createPost", "createChannel", "follow", "unfollow", "clearAddressIndex",
   "importKernelState", "resetKernel"}

(* C2: a call of a state-changing method that changed the kernel emitted   *)
(* exactly one pulse; a call that failed validation emitted none.          *)
C2_OnePulsePerStateChange ==
  /\ (done.op \in StateChangingOps /\ done.status = "ok" /\ done.changed)
       => done.emits = 1
  /\ (done.op \in StateChangingOps /\ done.status = "error") => done.emits = 0

NonNegative(ledger) == \A did \in DOMAIN ledger.balances : ledger.balances[did] >= 0

(* C3: every balance of the ledger, in memory and in the durable store, is *)
(* >= 0 in every reachable state, under mintSlips, transferSlips,          *)
(* regenerateIdentity, reloads, resetKernel and interleaved transfers.     *)
C3_BalancesNeverNegative ==
  NonNegative(kernel.slipLedger) /\ NonNegative(DurableLedger(storage))

(* a transfer is refused for lack of slips while another is in flight *)
C3_RefusedWhileTransferInFlight ==
  /\ \E i \in 1..limits.maxTasks : tasks[i].op = "transferSlips"
  /\ done.op = "transferSlips" /\ done.status = "error"
  /\ done.arg[3] > 0
  /\ getSlipBalance(kernel) < done.arg[3]

(* the dids that were granted the genesis slips for the first time *)
FirstGrants(old, new) ==
  {did \in DOMAIN new.genesis : GenesisOf(old, did) = 0 /\ GenesisOf(new, did) = 1}

MintedBy(s) == IF Ran(s, "call", "mintSlips") /\ ~NotPositive(s.arg[2]) THEN s.arg[2] ELSE 0

SumChange(old, new, s) ==
  /\ \A did \in DOMAIN new.genesis : new.genesis[did] <= 1
  /\ SumBalances(new) - SumBalances(old)
       = MintedBy(s) + GENESIS_SLIPS * Cardinality(FirstGrants(old, new))

(* C4: a step changes the sum of the balances only by the amount of a      *)
(* mintSlips and by the genesis grant of 100 to a did that never had it;   *)
(* every did is granted at most once; a reload leaves the sum unchanged    *)
(* (the wipe of resetKernel excepted).                                     *)
C4_SumChangesOnlyByMintAndGenesis ==
  [][step'.crashed \/ Ran(step', "emit", "resetKernel")
       \/ SumChange(DurableLedger(storage), DurableLedger(storage'), step')]_vars

LastTx(ledger) == ledger.transactions[Len(ledger.transactions)]

TransferDebitsAndCredits(old, new, from, to, amount) ==
  /\ BalanceOf(new, from) = BalanceOf(old, from) - (IF to = from THEN 0 ELSE amount)
  /\ BalanceOf(new, to) = BalanceOf(old, to) + (IF to = from THEN 0 ELSE amount)
  /\ DOMAIN new.balances = DOMAIN old.balances \cup {to}
  /\ \A did \in DOMAIN old.balances \ {from, to} : new.balances[did] = old.balances[did]
  /\ SumBalances(new) = SumBalances(old)
  /\ new.transactions = Append(old.transactions, LastTx(new))
  /\ LastTx(new).type = "TRANSFER" /\ LastTx(new).amount = amount
  /\ LastTx(new).from = from /\ LastTx(new).to = to

OnePulseMore(old, new, type) ==
  \E id \in DOMAIN new :
    /\ id \notin DOMAIN old
    /\ new[id].type = type
    /\ DOMAIN new = DOMAIN old \cup {id}
    /\ \A other \in DOMAIN old : new[other] = old[other]

(* C5: transferSlips(to, amount) with 0 < amount <= balance is accepted,   *)
(* debits the sender and credits the recipient by amount, appends one      *)
(* TRANSFER transaction, leaves the other balances and the sum unchanged   *)
(* (a transfer to oneself leaves the balance unchanged), and its           *)
(* completion adds one SLIP_TRANSFER pulse.                                *)
C5_TransferEffects ==
  [][/\ (/\ Ran(step', "call", "transferSlips")
         /\ 0 < step'.arg[3]
         /\ step'.arg[3] <= getSlipBalance(kernel))
          => /\ done'.status # "error"
             /\ TransferDebitsAndCredits(kernel.slipLedger, kernel'.slipLedger,
                                         kernel.identity.did, step'.arg[2],
                                         step'.arg[3])
             /\ kernel'.pulseStore = kernel.pulseStore
     /\ Ran(step', "emit", "transferSlips")
          => /\ done'.status = "ok" /\ done'.emits = 1
             /\ OnePulseMore(kernel.pulseStore, kernel'.pulseStore, "SLIP_TRANSFER")
             /\ kernel'.slipLedger = kernel.slipLedger]_vars

(* a transfer to another did completed *)
C5_TransferCompleted ==
  /\ Ran(step, "emit", "transferSlips")
  /\ done.status = "ok" /\ done.emits = 1
  /\ done.arg[2] = ForeignDid
  /\ BalanceOf(kernel.slipLedger, ForeignDid) = done.arg[3]

(* C6: transferSlips(to, amount) with amount > balance or amount <= 0      *)
(* reports an error and leaves the ledger, the pulse store, the sequence   *)
(* counter and the durable store unchanged.                                *)
C6_RefusedTransferChangesNothing ==
  [][(/\ Ran(step', "call", "transferSlips")
      /\ (step'.arg[3] <= 0 \/ step'.arg[3] > getSlipBalance(kernel)))
       => /\ done'.status = "error"
          /\ kernel' = kernel
          /\ storage' = storage
          /\ tasks' = tasks]_vars

(* a transfer of more than the balance was refused *)
C6_TransferRefused ==
  /\ Ran(step, "call", "transferSlips")
  /\ done.status = "error"
  /\ done.arg[3] > getSlipBalance(kernel)
  /\ Len(kernel.slipLedger.transactions) > 0

(* what the transaction log gives and takes from a did *)
RECURSIVE NetOf(_, _)
NetOf(txs, did) ==
  IF txs = <<>> THEN 0
  ELSE (IF Head(txs).to = did THEN Head(txs).amount ELSE 0)
       - (IF Head(txs).from = did THEN Head(txs).amount ELSE 0)
       + NetOf(Tail(txs), did)

(* every balance is what the genesis grants and the log account for *)
Settled(ledger) ==
  \A did \in DOMAIN ledger.balances \cup {ForeignDid} :
    BalanceOf(ledger, did)
      = GENESIS_SLIPS * GenesisOf(ledger, did) + NetOf(ledger.transactions, did)

(* C7: in every state another operation can observe, in the ledger every   *)
(* observer callback finds, and in every durable store a crash can leave,  *)
(* each balance is what the genesis grants and the transaction log account *)
(* for: no debit without its credit, no balance change without its record. *)
C7_TransferIsAtomic ==
  /\ Settled(kernel.slipLedger)
  /\ Settled(DurableLedger(storage))
  /\ \A i \in 1..Len(events) : Settled(events[i].ledger)

(* the page died in transferSlips between the write of the ledger and the  *)
(* write of the sequence counter                                           *)
C7_CrashedInsideTransfer ==
  /\ step.crashed /\ step.name = "call" /\ step.op = "transferSlips"
  /\ Len(DurableLedger(storage).transactions) > 0
  /\ LastTx(DurableLedger(storage)).type = "TRANSFER"
  /\ LastTx(DurableLedger(storage)).amount = step.arg[3]
  /\ loadState(storage, "PULSE_SEQUENCE", 0) = 0

(* C8: the construction of a kernel against an empty store succeeds and    *)
(* leaves the new identity with a balance of exactly 100.                  *)
C8_FreshKernelHasGenesisBalance ==
  (done.op = "constructor" /\ done.arg[3])
    => /\ done.status = "ok"
       /\ kernel.alive
       /\ getSlipBalance(kernel) = GENESIS_SLIPS

SameKernelState(old, new) ==
  /\ new.identity = old.identity
  /\ new.identityHistory = old.identityHistory
  /\ new.contentStore = old.contentStore
  /\ new.pulseStore = old.pulseStore
  /\ new.pulseSequence = old.pulseSequence
  /\ new.addressIndex = old.addressIndex
  /\ new.slipLedger.balances = old.slipLedger.balances
  /\ new.slipLedger.transactions = old.slipLedger.transactions
  /\ new.socialGraph = old.socialGraph
  /\ new.feeds = old.feeds
  /\ new.channels = old.channels

(* C9: a reload of the page after completed operations gives a kernel with *)
(* the identity, history, content store, pulse store, sequence counter,    *)
(* address index, ledger, social graph, feeds and channels of the previous *)
(* one; in particular it grants no genesis balance again.                  *)
C9_ReloadReproducesState ==
  [][(step'.name = "boot" /\ kernel.alive /\ Quiescent)
       => SameKernelState(kernel, kernel')]_vars

(* C10: a boot against a store without kernel metadata emits exactly one   *)
(* pulse, of type KERNEL_INIT, with sequence number 1 when the store is    *)
(* empty; a boot against a store with kernel metadata emits none.          *)
C10_BootEmitsInitOnce ==
  done.op = "constructor"
    => /\ done.arg[2]
            => /\ done.emits = 1
               /\ \E id \in DOMAIN kernel.pulseStore :
                    /\ kernel.pulseStore[id].type = "KERNEL_INIT"
                    /\ SequenceNumber(kernel.pulseStore[id].sequence)
                         = kernel.pulseSequence
                    /\ done.arg[3] => kernel.pulseSequence = 1
       /\ ~done.arg[2] => done.emits = 0

(* the pulse store a reload of the page would find *)
DurablePulseStore(ls) == loadState(ls, "PULSE_STORE", EmptyMap)

(* the sequence number the first pulse after a reload gets: the counter    *)
(* the constructor loads, incremented by _getNextSequence                  *)
SequenceAfterRestart(ls) == loadState(ls, "PULSE_SEQUENCE", 0) + 1

(* C11: in every state, crashed ones included, a restart against the       *)
(* durable store gives its next pulse a sequence number strictly greater   *)
(* than that of every pulse in the persisted pulse store.                  *)
C11_NoSequenceReuseAfterRestart ==
  \A id \in DOMAIN DurablePulseStore(storage) :
    SequenceNumber(DurablePulseStore(storage)[id].sequence)
      < SequenceAfterRestart(storage)

(* C12: every pulse a kernel object emits has a sequence number strictly   *)
(* greater than that of every pulse the same object emitted before,        *)
(* resetKernel included.                                                   *)
C12_SequenceStrictlyIncreasing ==
  [][\A seq \in PulseEventSeqs(events') : seq > hist.maxSeq]_vars

(* every entry of `old' is in `new' under the same key, unchanged *)
Kept(old, new) == \A id \in DOMAIN old : Has(new, id) /\ new[id] = old[id]

(* the step ran a segment of a method other than the wipe of resetKernel *)
OperationStep(s) ==
  s.name \in {"call", "hash", "emit", "sync"} /\ ~(s.name = "emit" /\ s.op = "resetKernel")

(* C13: every segment of every operation other than the wipe of            *)
(* resetKernel, importKernelState, regenerateIdentity and                  *)
(* clearAddressIndex included, keeps every pulse of the pulse store under  *)
(* its key with all its fields, in memory and in the durable store.        *)
C13_PulseLogAppendOnly ==
  [][OperationStep(step')
       => /\ Kept(DurablePulseStore(storage), DurablePulseStore(storage'))
          /\ ~step'.crashed => Kept(kernel.pulseStore, kernel'.pulseStore)]_vars

(* an import ran whose file gave another record for a pulse id of the store *)
C13_ImportKeptExistingPulse ==
  /\ Ran(step, "sync", "importKernelState")
  /\ step.arg[4] # <<>>
  /\ \E id \in DOMAIN step.arg[4][1] \cap DOMAIN kernel.pulseStore :
       step.arg[4][1][id] # kernel.pulseStore[id]

(* C14: resolveAddress of a string that does not parse returns INVALID at  *)
(* once, stores no pulse and changes nothing; of a string that parses it   *)
(* suspends in _emitPulse, and its completion adds exactly one             *)
(* ADDRESS_RESOLVE pulse and returns RESOLVED, KNOWN_BUT_UNAVAILABLE or    *)
(* UNKNOWN as looked up in the stores that already hold that pulse.        *)
C14_ResolveAuditPulse ==
  [][/\ (Ran(step', "call", "resolveAddress") /\ parseAddress(step'.arg[2]) = NoParse)
          => /\ done'.op = "resolveAddress" /\ done'.status = "ok"
             /\ done'.value[2].state = "INVALID"
             /\ done'.emits = 0
             /\ kernel' = kernel /\ storage' = storage /\ tasks' = tasks
     /\ (Ran(step', "call", "resolveAddress") /\ parseAddress(step'.arg[2]) # NoParse)
          => /\ done' = NoResult
             /\ \E i \in 1..limits.maxTasks :
                  tasks'[i].op = "resolveAddress" /\ tasks'[i].pc = "emit"
             /\ kernel'.pulseStore = kernel.pulseStore
     /\ Ran(step', "emit", "resolveAddress")
          => /\ done'.status = "ok" /\ done'.emits = 1
             /\ OnePulseMore(kernel.pulseStore, kernel'.pulseStore, "ADDRESS_RESOLVE")
             /\ done'.value[2].state \in {"RESOLVED", "KNOWN_BUT_UNAVAILABLE", "UNKNOWN"}
             /\ done'.value[2] = ResolveDispatch(kernel', step'.arg[2])]_vars

(* a resolution of a former identity completed: KNOWN_BUT_UNAVAILABLE,     *)
(* one pulse                                                               *)
C14_ResolvedKnownButUnavailable ==
  /\ Ran(step, "emit", "resolveAddress")
  /\ done.emits = 1
  /\ done.value[2].state = "KNOWN_BUT_UNAVAILABLE"

(* everything but the pulse store and the sequence counter is the same *)
OnlyPulsesDiffer(old, new) ==
  /\ new.contentStore = old.contentStore
  /\ new.addressIndex = old.addressIndex
  /\ new.slipLedger = old.slipLedger
  /\ new.socialGraph = old.socialGraph
  /\ new.feeds = old.feeds
  /\ new.channels = old.channels
  /\ new.identity = old.identity
  /\ new.identityHistory = old.identityHistory
  /\ new.kernelMeta = old.kernelMeta

OnlyPulseKeysDiffer(old, new) ==
  \A key \in Range(STORAGE_KEYS) \ {"PULSE_STORE", "PULSE_SEQUENCE"} :
    new[key] = old[key]

(* C15: every segment of resolveAddress, for every input, leaves the       *)
(* content store, address index, ledger, social graph, feeds, channels,    *)
(* identity and identity history unchanged, in memory and in the durable   *)
(* store; only the pulse store and the sequence counter may change.        *)
C15_ResolveChangesOnlyPulses ==
  [][Ran(step', step'.name, "resolveAddress")
       => /\ OnlyPulsesDiffer(kernel, kernel')
          /\ OnlyPulseKeysDiffer(storage, storage')]_vars

(* a resolution completed on a kernel that holds content, an index entry   *)
(* and a former identity                                                   *)
C15_ResolvedOnPopulatedKernel ==
  /\ Ran(step, "emit", "resolveAddress")
  /\ kernel.contentStore # EmptyMap
  /\ kernel.addressIndex # EmptyMap
  /\ kernel.identityHistory # <<>>

SameResolution(first, second) ==
  /\ second.state = first.state
  /\ second.content = first.content
  /\ second.metadata = first.metadata

(* C16: a resolveAddress that returns right after another resolveAddress   *)
(* of the same address, nothing else having run in between, returns the    *)
(* same state, content and metadata.                                       *)
C16_ResolveTwiceSameResult ==
  [][(/\ done'.op = "resolveAddress"
      /\ hist.resolved # <<>>
      /\ hist.resolved[1].arg = done'.arg)
       => SameResolution(hist.resolved[1].value[2], done'.value[2])]_vars

(* the address of a stored pulse was resolved twice in a row *)
C16_ResolvedPulseTwice ==
  /\ hist.resolved # <<>>
  /\ hist.resolved[1].times = 2
  /\ hist.resolved[1].value[2].state = "RESOLVED"
  /\ hist.resolved[1].value[2].type = "pulse"
  /\ done.op = "resolveAddress"

(* C17: every call of resolveAddress returns, without raising, a result    *)
(* whose state is RESOLVED, KNOWN_BUT_UNAVAILABLE, UNKNOWN or INVALID,     *)
(* never FORBIDDEN.                                                        *)
C17_ResolveNeverRaises ==
  done.op = "resolveAddress"
    => /\ done.status = "ok"
       /\ done.value[1] = "resolution"
       /\ done.value[2].state \in RESOLUTION_STATE \ {"FORBIDDEN"}

(* the address of a slip the ledger does not hold was reported UNKNOWN on  *)
(* a ledger that holds a transaction                                       *)
C17_ResolvedUnknownSlip ==
  /\ done.op = "resolveAddress"
  /\ done.status = "ok"
  /\ done.value[2].state = "UNKNOWN"
  /\ done.value[2].type = "slip"
  /\ kernel.slipLedger.transactions # <<>>

(* C18: as long as no resetKernel wiped the kernel, the address a          *)
(* successful generateAddress(content, xhe or ipfs) returned resolves to   *)
(* RESOLVED with that content: the lookup gives it in every state, and     *)
(* every resolveAddress of it returned it, after clearAddressIndex and     *)
(* regenerateIdentity too.                                                 *)
C18_GeneratedAddressResolves ==
  kernel.alive =>
    \A g \in hist.generated :
      /\ ResolveDispatch(kernel, g.address).state = "RESOLVED"
      /\ ResolveDispatch(kernel, g.address).content = g.content
      /\ (done.op = "resolveAddress" /\ done.arg[2] = g.address)
           => /\ done.value[2].state = "RESOLVED"
              /\ done.value[2].content = g.content

(* a generated address was resolved after the index was cleared and the    *)
(* identity regenerated                                                    *)
C18_ResolvedAfterClearAndRegenerate ==
  /\ done.op = "resolveAddress"
  /\ \E g \in hist.generated : done.arg[2] = g.address
  /\ kernel.addressIndex = EmptyMap
  /\ kernel.identityHistory # <<>>

(* the call the step belongs to repeats an earlier generateAddress of the  *)
(* same content with scheme xhe                                            *)
RepeatsGenerate(s, g) ==
  s.op = "generateAddress" /\ s.arg[3] = "xhe" /\ g.scheme = "xhe" /\ g.content = s.arg[2]

(* C19: a second generateAddress of the same content with scheme xhe       *)
(* returns the address and the hash the first one returned, each of the    *)
(* two calls adds exactly one pulse to the pulse store, and the second     *)
(* call leaves the content store with the entries it had, the entry of     *)
(* the hash still holding the content.                                     *)
C19_GenerateTwiceSameAddress ==
  [][\A g \in hist.generated :
       /\ (Ran(step', "hash", "generateAddress") /\ RepeatsGenerate(step', g))
            => /\ DOMAIN kernel'.contentStore = DOMAIN kernel.contentStore
               /\ kernel.contentStore[g.hash].content = g.content
               /\ kernel'.contentStore[g.hash].content = g.content
               /\ kernel'.pulseStore = kernel.pulseStore
       /\ (Ran(step', "emit", "generateAddress") /\ RepeatsGenerate(step', g))
            => /\ done'.status = "ok"
               /\ done'.value[2] = g.address
               /\ done'.value[3] = g.hash
               /\ done'.emits = 1 /\ g.emits = 1
               /\ OnePulseMore(kernel.pulseStore, kernel'.pulseStore, "ADDRESS_GENERATE")
               /\ kernel'.contentStore = kernel.contentStore
    ]_vars

(* the second generateAddress of a content with scheme xhe returned, two   *)
(* ADDRESS_GENERATE pulses in the store                                    *)
C19_GeneratedTwice ==
  /\ Ran(step, "emit", "generateAddress")
  /\ done.op = "generateAddress" /\ done.status = "ok" /\ done.arg[3] = "xhe"
  /\ \E g \in hist.generated : g.address = done.value[2] /\ g.hash = done.value[3]
  /\ Cardinality({id \in DOMAIN kernel.pulseStore :
                    kernel.pulseStore[id].type = "ADDRESS_GENERATE"}) = 2
  /\ Cardinality(DOMAIN kernel.contentStore) = 1

(* the segment raised, emitted nothing and left the kernel object and      *)
(* localStorage as they were                                               *)
RefusedWithoutEffect ==
  /\ done'.op = "generateAddress" /\ done'.status = "error"
  /\ done'.emits = 0 /\ ~done'.changed
  /\ kernel' = kernel
  /\ storage' = storage

(* C20: generateAddress raises for an empty content (before its first      *)
(* await) and for a scheme other than xhe, did:xhe, pulse, ipfs (when the  *)
(* digest of the content arrives); the failed call emits no pulse and      *)
(* leaves content store, address index, pulse store and sequence counter,  *)
(* in memory and in localStorage, unchanged.                               *)
C20_GenerateRejectsBadInput ==
  [][/\ (Ran(step', "call", "generateAddress") /\ step'.arg[2] = <<>>)
          => RefusedWithoutEffect
     /\ (Ran(step', "call", "generateAddress") /\ step'.arg[2] # <<>>)
          => kernel' = kernel /\ storage' = storage /\ done'.status = "none"
     /\ (Ran(step', "hash", "generateAddress")
           /\ step'.arg[3] \notin {"xhe", "did:xhe", "pulse", "ipfs"})
          => RefusedWithoutEffect
     /\ (Ran(step', "hash", "generateAddress")
           /\ step'.arg[3] \in {"xhe", "did:xhe", "pulse", "ipfs"})
          => done'.status # "error"
    ]_vars

(* an unknown scheme was refused by a kernel that holds content *)
C20_RefusedUnknownScheme ==
  /\ Ran(step, "hash", "generateAddress")
  /\ done.op = "generateAddress" /\ done.status = "error"
  /\ done.arg[3] = "http"
  /\ kernel.contentStore # EmptyMap
  /\ kernel.pulseSequence > 0

(* the pulse store holds a pulse with the hash, and the sequence if one is *)
(* given, of the parsed pulse address                                      *)
MatchingPulse(k, parsed) ==
  \E id \in DOMAIN k.pulseStore :
    /\ k.pulseStore[id].hash = parsed.hash
    /\ parsed.sequence # <<>> => k.pulseStore[id].sequence = parsed.sequence

PulseAddressCandidates(k) ==
  {k.pulseStore[id].address : id \in DOMAIN k.pulseStore}
    \cup BareHashAddresses(k)
    \cup {Tok(<<"pulse://">>) \o <<Chr("u")>>,
          Tok(<<"pulse://">>) \o padStart8(1) \o Tok(<<"/">>) \o <<Chr("u")>>}

(* C21: a pulse address resolves to RESOLVED exactly when the pulse store  *)
(* holds a pulse with its hash (and its sequence, when the address gives   *)
(* one), and to UNKNOWN otherwise: what the lookup gives in every state,   *)
(* and what the last resolveAddress returned while the store is as it left *)
(* it.                                                                     *)
C21_PulseAddressResolvesIffStored ==
  kernel.alive =>
    \A address \in PulseAddressCandidates(kernel) :
      /\ ResolveDispatch(kernel, address).state =
           IF MatchingPulse(kernel, parseAddress(address)) THEN "RESOLVED" ELSE "UNKNOWN"
      /\ (Ran(step, "emit", "resolveAddress") /\ done.arg[2] = address)
           => done.value[2].state =
                IF MatchingPulse(kernel, parseAddress(address)) THEN "RESOLVED" ELSE "UNKNOWN"

MintCredits(old, new, did, amount) ==
  /\ BalanceOf(new, did) = BalanceOf(old, did) + amount
  /\ DOMAIN new.balances = DOMAIN old.balances \cup {did}
  /\ \A other \in DOMAIN old.balances \ {did} : new.balances[other] = old.balances[other]
  /\ new.transactions = Append(old.transactions, LastTx(new))
  /\ LastTx(new).type = "MINT" /\ LastTx(new).amount = amount
  /\ LastTx(new).to = did

(* C22: mintSlips(amount) with amount > 0 credits the current identity by  *)
(* amount, leaves the other balances as they were, appends one MINT        *)
(* transaction, and its completion adds one SLIP_MINT pulse; with          *)
(* amount <= 0 it raises and leaves the ledger, the pulse store and        *)
(* localStorage unchanged.                                                 *)
C22_MintEffects ==
  [][/\ (Ran(step', "call", "mintSlips") /\ step'.arg[2] > 0)
          => /\ done'.status # "error"
             /\ MintCredits(kernel.slipLedger, kernel'.slipLedger, kernel.identity.did,
                            step'.arg[2])
             /\ DurableLedger(storage') = kernel'.slipLedger
             /\ kernel'.pulseStore = kernel.pulseStore
     /\ Ran(step', "emit", "mintSlips")
          => /\ done'.status = "ok" /\ done'.emits = 1
             /\ OnePulseMore(kernel.pulseStore, kernel'.pulseStore, "SLIP_MINT")
             /\ kernel'.slipLedger = kernel.slipLedger
     /\ (Ran(step', "call", "mintSlips") /\ step'.arg[2] <= 0)
          => /\ done'.status = "error" /\ done'.emits = 0
             /\ kernel' = kernel
             /\ storage' = storage
    ]_vars

(* a mint completed on a ledger that held the genesis grant *)
C22_MintCompleted ==
  /\ Ran(step, "emit", "mintSlips")
  /\ done.status = "ok" /\ done.emits = 1
  /\ getSlipBalance(kernel) = GENESIS_SLIPS + done.arg[2]
  /\ Len(kernel.slipLedger.transactions) = 1

HistoryDids(k) == {k.identityHistory[i].did : i \in 1..Len(k.identityHistory)}

(* the synchronous part of regenerateIdentity: one history entry more, a   *)
(* new current did, the rest as it was                                     *)
IdentityReplaced(old, new) ==
  /\ Len(new.identityHistory) = Len(old.identityHistory) + 1
  /\ SubSeq(new.identityHistory, 1, Len(old.identityHistory)) = old.identityHistory
  /\ new.identityHistory[Len(new.identityHistory)].did = old.identity.did
  /\ new.identity.did \notin HistoryDids(old) \cup {old.identity.did}
  /\ \A did \in DOMAIN old.slipLedger.balances :
       BalanceOf(new.slipLedger, did) = old.slipLedger.balances[did]
  /\ new.slipLedger.transactions = old.slipLedger.transactions
  /\ new.contentStore = old.contentStore
  /\ new.pulseStore = old.pulseStore
  /\ ResolveDispatch(new, old.identity.did).state = "KNOWN_BUT_UNAVAILABLE"
  /\ ResolveDispatch(new, new.identity.did).state = "RESOLVED"

(* C23: regenerateIdentity appends the previous identity to the history    *)
(* and changes no earlier entry, makes a did that was never current the    *)
(* current one, and leaves balances, content store and pulses as they      *)
(* were but for its own IDENTITY_REGENERATE pulse; from then on a          *)
(* resolveAddress of an archived did returns KNOWN_BUT_UNAVAILABLE and of   *)
(* the current did RESOLVED.                                               *)
C23_RegenerateArchivesIdentity ==
  [][/\ Ran(step', "call", "regenerateIdentity") => IdentityReplaced(kernel, kernel')
     /\ Ran(step', "emit", "regenerateIdentity")
          => /\ done'.status = "ok"
             /\ kernel'.identity = kernel.identity
             /\ kernel'.identityHistory = kernel.identityHistory
             /\ kernel'.slipLedger = kernel.slipLedger
             /\ kernel'.contentStore = kernel.contentStore
             /\ OnePulseMore(kernel.pulseStore, kernel'.pulseStore, "IDENTITY_REGENERATE")
     /\ (Ran(step', "emit", "resolveAddress") /\ done'.arg[2] \in HistoryDids(kernel'))
          => done'.value[2].state = "KNOWN_BUT_UNAVAILABLE"
     /\ (Ran(step', "emit", "resolveAddress") /\ done'.arg[2] = kernel'.identity.did)
          => done'.value[2].state = "RESOLVED"
    ]_vars

(* after two regenerations the first did was resolved *)
C23_ResolvedFirstDid ==
  /\ Ran(step, "emit", "resolveAddress")
  /\ Len(kernel.identityHistory) = 2
  /\ done.arg[2] = kernel.identityHistory[1].did
  /\ done.value[2].state = "KNOWN_BUT_UNAVAILABLE"
  /\ BalanceOf(kernel.slipLedger, kernel.identityHistory[1].did) = GENESIS_SLIPS

(* pulse store, feeds and channels hold nothing, the sequence counter is 0 *)
WipedStores(k) ==
  /\ k.pulseStore = EmptyMap
  /\ k.feeds = EmptyMap
  /\ k.channels = EmptyMap
  /\ k.pulseSequence = 0

EmptiedLedger(ledger) ==
  ledger.balances = EmptyMap /\ ledger.transactions = <<>>

(* the ledger holds the genesis grant of did and nothing else *)
GenesisOnlyLedger(ledger, did) ==
  /\ DOMAIN ledger.balances = {did}
  /\ ledger.balances[did] = GENESIS_SLIPS
  /\ ledger.transactions = <<>>

ResetPreserving(old, new) ==
  /\ new.identity = old.identity
  /\ new.identityHistory = old.identityHistory
  /\ WipedStores(new)
  /\ EmptiedLedger(new.slipLedger)

NewIdentityAfterReset(old, new) ==
  /\ new.identity.did # old.identity.did
  /\ new.identity.did \notin HistoryDids(old)
  /\ new.identityHistory = <<>>
  /\ WipedStores(new)

(* C24 as stated: resetKernel(true) keeps identity and history and leaves  *)
(* ledger, pulse store, feeds and channels empty and the counter at 0;     *)
(* resetKernel(false) leaves the same stores empty, the ledger included,   *)
(* makes a new did current and clears the history.                         *)
C24_ResetLeavesLedgerEmpty ==
  [][Ran(step', "emit", "resetKernel")
       => IF step'.arg[2]
            THEN ResetPreserving(kernel, kernel')
            ELSE NewIdentityAfterReset(kernel, kernel')
                   /\ EmptiedLedger(kernel'.slipLedger)]_vars

(* C24: resetKernel(true) keeps identity and history and leaves ledger,    *)
(* pulse store, feeds and channels empty and the counter at 0;             *)
(* resetKernel(false) leaves pulse store, feeds and channels empty and the *)
(* counter at 0, makes a new did current, clears the history, and leaves   *)
(* a ledger that holds the genesis grant of the new did and nothing else.  *)
C24_ResetEffects ==
  [][Ran(step', "emit", "resetKernel")
       => IF step'.arg[2]
            THEN ResetPreserving(kernel, kernel')
            ELSE NewIdentityAfterReset(kernel, kernel')
                   /\ GenesisOnlyLedger(kernel'.slipLedger, kernel'.identity.did)]_vars

(* resetKernel(false) completed on a kernel that had emitted a pulse       *)
(* before the KERNEL_RESET one                                             *)
C24_ResetWithNewIdentity ==
  /\ Ran(step, "emit", "resetKernel")
  /\ ~step.arg[2]
  /\ hist.maxSeq >= 2
  /\ kernel.identityHistory = <<>>
  /\ getSlipBalance(kernel) = GENESIS_SLIPS

(* the step imported the file `snapshot' that exportKernelState wrote *)
ImportedSnapshot(s, d, snapshot) ==
  /\ Ran(s, "sync", "importKernelState")
  /\ d.arg[2] = EXPORT_VERSION /\ d.arg[3]
  /\ d.arg[4] = snapshot.pulseStore

SameStoresAs(k, snapshot) ==
  /\ k.addressIndex = snapshot.addressIndex[1]
  /\ k.contentStore = snapshot.contentStore[1]
  /\ k.pulseStore = snapshot.pulseStore[1]

(* C25: importKernelState of a file written by exportKernelState, as the   *)
(* first step after a resetKernel completed, leaves address index, content *)
(* store and pulse store equal to the stores the kernel held when the file *)
(* was written, in memory and in localStorage.                             *)
C25_ExportResetImportRestores ==
  [][\A snapshot \in Range(exported) :
       (Ran(step, "emit", "resetKernel") /\ ImportedSnapshot(step', done', snapshot))
         => /\ SameStoresAs(kernel', snapshot)
            /\ loadState(storage', "ADDRESS_INDEX", EmptyMap) = snapshot.addressIndex[1]
            /\ loadState(storage', "CONTENT_STORE", EmptyMap) = snapshot.contentStore[1]
            /\ loadState(storage', "PULSE_STORE", EmptyMap) = snapshot.pulseStore[1]
    ]_vars

(* a file holding content, index entries and pulses was imported into a    *)
(* kernel that resetKernel had emptied                                     *)
C25_ImportedIntoResetKernel ==
  /\ hist.resets > 0
  /\ kernel.pulseSequence = 0
  /\ \E snapshot \in Range(exported) :
       /\ ImportedSnapshot(step, done, snapshot)
       /\ snapshot.contentStore[1] # EmptyMap
       /\ snapshot.addressIndex[1] # EmptyMap
       /\ snapshot.pulseStore[1] # EmptyMap
       /\ SameStoresAs(kernel, snapshot)

(* C26: an importKernelState that accepts its payload, of the current      *)
(* format or of the legacy one, keeps every entry the content store, the   *)
(* address index and the pulse store held, under its key and with its      *)
(* value.                                                                  *)
C26_ImportNeverOverwrites ==
  [][(Ran(step', "sync", "importKernelState") /\ done'.arg[3])
       => /\ Kept(kernel.contentStore, kernel'.contentStore)
          /\ Kept(kernel.addressIndex, kernel'.addressIndex)
          /\ Kept(kernel.pulseStore, kernel'.pulseStore)]_vars

Added(old, new) == Cardinality(DOMAIN new \ DOMAIN old)

(* C27: the count a current-format importKernelState reports is the number *)
(* of entries it added to content store, address index and pulse store     *)
(* together.                                                               *)
C27_ImportCountsAddedEntries ==
  [][(Ran(step', "sync", "importKernelState") /\ done'.value[3] = "full")
       => done'.value[2] = Added(kernel.contentStore, kernel'.contentStore)
                             + Added(kernel.addressIndex, kernel'.addressIndex)
                             + Added(kernel.pulseStore, kernel'.pulseStore)]_vars

(* C28: importKernelState of a parseable payload whose version is not the  *)
(* current one and that carries an entries map returns a result flagged as *)
(* migrated, emits no pulse, and changes the address index only: every     *)
(* other field of the kernel and every other key of localStorage is as it  *)
(* was.                                                                    *)
C28_LegacyImportChangesOnlyIndex ==
  [][(/\ Ran(step', "sync", "importKernelState")
      /\ done'.arg[3] /\ done'.arg[2] # EXPORT_VERSION /\ done'.arg[5])
       => /\ done'.status = "ok" /\ done'.value[3] = "migrated"
          /\ done'.emits = 0
          /\ [kernel' EXCEPT !.addressIndex = kernel.addressIndex] = kernel
          /\ \A key \in DOMAIN storage \ {"ADDRESS_INDEX"} : storage'[key] = storage[key]
          /\ DOMAIN storage' = DOMAIN storage]_vars

(* a legacy file was imported into a kernel that holds content and pulses  *)
C28_LegacyImported ==
  /\ Ran(step, "sync", "importKernelState")
  /\ done.value[3] = "migrated"
  /\ Has(kernel.addressIndex, OldAddress)
  /\ kernel.contentStore # EmptyMap
  /\ kernel.pulseStore # EmptyMap

NoneFollowedAndBlocked(graph) ==
  Range(graph.following) \cap Range(graph.blocked) = {}

(* the call of follow raised, emitted nothing and left the kernel object   *)
(* and localStorage as they were                                           *)
FollowRefused ==
  /\ done'.op = "follow" /\ done'.status = "error"
  /\ done'.emits = 0
  /\ kernel' = kernel
  /\ storage' = storage

NoDuplicates(list) == Cardinality(Range(list)) = Len(list)

(* the synchronous part of unfollow(did): did is gone from the list, the   *)
(* other dids are there                                                    *)
Unfollowed(old, new, did) ==
  /\ Range(new.following) = Range(old.following) \ {did}
  /\ Len(new.following) = Len(old.following) - (IF Includes(old.following, did) THEN 1 ELSE 0)
  /\ ~Includes(old.following, did) => new.following = old.following
  /\ new.followers = old.followers /\ new.blocked = old.blocked

(* C30: follow(x) of a did the kernel follows returns without a change and *)
(* without a pulse; a follow of a new did appends it and its completion    *)
(* adds one FOLLOW pulse; the following list never holds a did twice;      *)
(* unfollow(x) takes x out of the list, leaves the list as it was when x   *)
(* was not in it, and its completion adds one UNFOLLOW pulse either way.   *)
C30_FollowIdempotentUnfollowRemoves ==
  [][/\ (Ran(step', "call", "follow")
           /\ step'.arg[2] # kernel.identity.did
           /\ Includes(kernel.socialGraph.following, step'.arg[2]))
          => /\ done'.op = "follow" /\ done'.status = "ok" /\ done'.emits = 0
             /\ kernel' = kernel
             /\ storage' = storage
     /\ (Ran(step', "call", "follow") /\ done'.status = "none")
          => /\ kernel'.socialGraph.following
                  = Append(kernel.socialGraph.following, step'.arg[2])
             /\ kernel'.pulseStore = kernel.pulseStore
     /\ Ran(step', "emit", "follow")
          => /\ done'.status = "ok" /\ done'.emits = 1
             /\ OnePulseMore(kernel.pulseStore, kernel'.pulseStore, "FOLLOW")
             /\ kernel'.socialGraph = kernel.socialGraph
     /\ kernel'.alive => NoDuplicates(kernel'.socialGraph.following)
     /\ NoDuplicates(loadState(storage', "SOCIAL_GRAPH", EmptySocialGraph).following)
     /\ Ran(step', "call", "unfollow")
          => /\ Unfollowed(kernel.socialGraph, kernel'.socialGraph, step'.arg[2])
             /\ kernel'.pulseStore = kernel.pulseStore
     /\ Ran(step', "emit", "unfollow")
          => /\ done'.status = "ok" /\ done'.emits = 1
             /\ OnePulseMore(kernel.pulseStore, kernel'.pulseStore, "UNFOLLOW")
             /\ kernel'.socialGraph = kernel.socialGraph
    ]_vars

(* a second follow of a did returned without a pulse, another follow of    *)
(* the same did still in flight                                            *)
C30_FollowedTwice ==
  /\ Ran(step, "call", "follow")
  /\ done.op = "follow" /\ done.status = "ok" /\ done.emits = 0
  /\ Includes(kernel.socialGraph.following, done.arg[2])
  /\ \E i \in 1..limits.maxTasks :
       tasks[i].op = "follow" /\ tasks[i].arg = done.arg

PostsOf(store, id) == IF Has(store, id) THEN store[id].posts ELSE <<>>

(* the post is the new head of the list of `id', the rest of the store is  *)
(* as it was                                                               *)
Prepended(old, new, id, post) ==
  /\ DOMAIN new = DOMAIN old \cup {id}
  /\ new[id].posts = <<post>> \o PostsOf(old, id)
  /\ \A other \in DOMAIN old \ {id} : new[other] = old[other]
  /\ Has(old, id) => [new[id] EXCEPT !.posts = old[id].posts] = old[id]

NewPost(k, new) == Head(new.feeds[PersonalFeedId(k.identity.did)].posts)

(* C31: the part of createPost(content, {channel: id}) that runs when the  *)
(* digest of the content arrives stores the content under its hash, one    *)
(* entry however often the content was posted, and prepends the post to    *)
(* the personal feed of the author; it prepends the same post to the       *)
(* channel id when the kernel has that channel, and otherwise leaves the   *)
(* channels as they were.                                                  *)
C31_PostGoesToFeedAndChannel ==
  [][Ran(step', "hash", "createPost")
       => /\ NewPost(kernel, kernel').content = step'.arg[2]
          /\ NewPost(kernel, kernel').hash = sha256(step'.arg[2])
          /\ NewPost(kernel, kernel').author = kernel.identity.did
          /\ DOMAIN kernel'.contentStore
               = DOMAIN kernel.contentStore \cup {sha256(step'.arg[2])}
          /\ kernel'.contentStore[sha256(step'.arg[2])].content = step'.arg[2]
          /\ \A hash \in DOMAIN kernel.contentStore \ {sha256(step'.arg[2])} :
               kernel'.contentStore[hash] = kernel.contentStore[hash]
          /\ Prepended(kernel.feeds, kernel'.feeds, PersonalFeedId(kernel.identity.did),
                       NewPost(kernel, kernel'))
          /\ IF step'.arg[3].channel # <<>> /\ Has(kernel.channels, step'.arg[3].channel)
               THEN Prepended(kernel.channels, kernel'.channels, step'.arg[3].channel,
                              NewPost(kernel, kernel'))
               ELSE kernel'.channels = kernel.channels
          /\ loadState(storage', "FEEDS", EmptyMap) = kernel'.feeds
          /\ loadState(storage', "CHANNELS", EmptyMap) = kernel'.channels
          /\ loadState(storage', "CONTENT_STORE", EmptyMap) = kernel'.contentStore
    ]_vars

(* a second post of the same content went to the channel: the channel      *)
(* holds one post, the personal feed two, the content store one entry      *)
C31_PostedToChannel ==
  /\ Ran(step, "emit", "createPost")
  /\ done.status = "ok"
  /\ Cardinality(DOMAIN kernel.contentStore) = 1
  /\ \E id \in DOMAIN kernel.channels :
       /\ done.arg[3].channel = id
       /\ Len(kernel.channels[id].posts) = 1
       /\ Len(kernel.feeds[PersonalFeedId(kernel.identity.did)].posts) = 2
       /\ Head(kernel.feeds[PersonalFeedId(kernel.identity.did)].posts)
            = Head(kernel.channels[id].posts)

(* the pulses the step appended to the pulse store *)
Appended(old, new) == {new[id] : id \in DOMAIN new \ DOMAIN old}

(* every pulse of `pulses' has a higher sequence number than every pulse   *)
(* the store held                                                          *)
AfterAllStored(old, pulses) ==
  \A pulse \in pulses : \A id \in DOMAIN old :
    SequenceNumber(old[id].sequence) < SequenceNumber(pulse.sequence)

(* C32: with calls in flight at the same time, and neither resetKernel nor *)
(* importKernelState, pulses are appended to the pulse store and announced *)
(* to the observers in increasing order of their sequence numbers: the     *)
(* pulse a step appends, and the pulse it announces, has a higher number   *)
(* than every pulse already in the store; and once no call is in flight    *)
(* the pulses carry the numbers 1..n, n the sequence counter, each once.   *)
C32_PulsesAppendedInSequenceOrder ==
  [][(kernel.alive /\ kernel'.alive)
       => /\ AfterAllStored(kernel.pulseStore, Appended(kernel.pulseStore, kernel'.pulseStore))
          /\ \A seq \in PulseEventSeqs(events') : \A id \in DOMAIN kernel.pulseStore :
               SequenceNumber(kernel.pulseStore[id].sequence) < seq
          /\ (\A i \in 1..limits.maxTasks : tasks'[i].op = "idle")
               => /\ PulseSequenceNumbers(kernel') = 1..kernel'.pulseSequence
                  /\ Cardinality(DOMAIN kernel'.pulseStore) = kernel'.pulseSequence
    ]_vars

TxOfType(ledger, type) ==
  {i \in 1..Len(ledger.transactions) : ledger.transactions[i].type = type}

PulsesOfType(pulseStore, type) ==
  {id \in DOMAIN pulseStore : pulseStore[id].type = type}

(* the ledger records more mints or transfers than the pulse store has     *)
(* SLIP_MINT or SLIP_TRANSFER pulses                                       *)
TxWithoutPulse(ledger, pulseStore) ==
  \/ Cardinality(TxOfType(ledger, "MINT"))
       > Cardinality(PulsesOfType(pulseStore, "SLIP_MINT"))
  \/ Cardinality(TxOfType(ledger, "TRANSFER"))
       > Cardinality(PulsesOfType(pulseStore, "SLIP_TRANSFER"))

(* the sequence counter is beyond the highest number of a stored pulse *)
CounterAhead(counter, pulseStore) ==
  \A id \in DOMAIN pulseStore : SequenceNumber(pulseStore[id].sequence) < counter

InconsistentStore(ls) ==
  \/ TxWithoutPulse(DurableLedger(ls), DurablePulseStore(ls))
  \/ /\ loadState(ls, "PULSE_SEQUENCE", 0) > 0
     /\ CounterAhead(loadState(ls, "PULSE_SEQUENCE", 0), DurablePulseStore(ls))

(* C33: the writes of one operation are not one write.  While every call   *)
(* ran to its end (no crash, no reload with a call in flight) and none is  *)
(* in flight, localStorage holds a pulse for every mint and transfer of    *)
(* the ledger and the pulse of the highest allocated sequence number; a    *)
(* crash between two writes of a call leaves a localStorage without them,  *)
(* which the next construction loads as it is.                             *)
C33_InconsistentOnlyAfterCrash ==
  (kernel.alive /\ Quiescent /\ ~hist.cut /\ hist.crashes = 0)
    => ~InconsistentStore(storage)

(* after a crash inside a mint or transfer the page was loaded again: the  *)
(* kernel holds the transaction and no pulse for it, and a sequence        *)
(* counter beyond every stored pulse                                       *)
C33_LoadedInconsistentStore ==
  /\ hist.crashes > 0
  /\ kernel.alive /\ step.name = "boot" /\ done.status = "ok"
  /\ TxWithoutPulse(kernel.slipLedger, kernel.pulseStore)
  /\ kernel.pulseSequence > 0
  /\ CounterAhead(kernel.pulseSequence, kernel.pulseStore)
  /\ InconsistentStore(storage)

NotifyingOps ==
  {"generateAddress", "mintSlips", "transferSlips", "createPost", "createChannel",
   "follow", "unfollow", "regenerateIdentity"}

(* the 'kernel:pulse' notifications among those of a step *)
PulseNotifications(ev) == {i \in 1..Len(ev) : ev[i].event = "kernel:pulse"}

(* every callback of the event was called once, in the order of            *)
(* subscription, whether or not an earlier one raised                      *)
ReachedEveryObserver(n) ==
  /\ Len(n.received) = Len(_listeners(n.event))
  /\ \A j \in 1..Len(n.received) : n.received[j].observer = _listeners(n.event)[j]

(* when the callbacks ran, the pulse was in the pulse store in memory and  *)
(* in localStorage, and the kernel and localStorage were those the call    *)
(* leaves: every write of the call came before                             *)
NotifiedAfterWrites(n, k, ls) ==
  /\ Has(n.k.pulseStore, n.data.id)
  /\ Has(DurablePulseStore(n.ls), n.data.id)
  /\ n.k.pulseStore[n.data.id] = n.data
  /\ n.k = k
  /\ n.ls = ls

NotifiedOnce(ev, k, ls) ==
  /\ Cardinality(PulseNotifications(ev)) = 1
  /\ \A i \in PulseNotifications(ev) :
       ReachedEveryObserver(ev[i]) /\ NotifiedAfterWrites(ev[i], k, ls)

(* a segment of a call that does not return normally notifies no one *)
SilentUntilReturn(s, d, ev) ==
  (s.op \in NotifyingOps /\ ~s.crashed /\ d.status # "ok") => PulseNotifications(ev) = {}

(* C34 as stated: every call of generateAddress, mintSlips, transferSlips, *)
(* createPost, createChannel, follow, unfollow and regenerateIdentity that *)
(* returns has notified each subscribed observer of its pulse exactly      *)
(* once, after its writes and before returning, whether or not an          *)
(* observer raised.                                                        *)
C34_EveryCallNotifiesOnce ==
  [][/\ (step'.op \in NotifyingOps /\ ~step'.crashed /\ done'.status = "ok")
          => NotifiedOnce(events', kernel', storage')
     /\ SilentUntilReturn(step', done', events')]_vars

(* follow(did) of a did already followed returns without a pulse *)
FollowedAlready(d) == d.op = "follow" /\ d.status = "ok" /\ ~d.changed

(* C34: every call of generateAddress, mintSlips, transferSlips,           *)
(* createPost, createChannel, follow, unfollow and regenerateIdentity that *)
(* returns, other than a follow of a did already followed, has notified    *)
(* each subscribed observer of its pulse exactly once, after its writes    *)
(* were in memory and in localStorage and before returning, whether or not *)
(* an observer raised; a follow of a did already followed, a call that     *)
(* raises and a call still suspended notify no one.                        *)
C34_ChangingCallNotifiesOnce ==
  [][/\ (step'.op \in NotifyingOps /\ ~step'.crashed /\ done'.status = "ok")
          => IF FollowedAlready(done')
               THEN PulseNotifications(events') = {}
               ELSE NotifiedOnce(events', kernel', storage')
     /\ SilentUntilReturn(step', done', events')]_vars

(* a transfer returned after its notification reached the observer         *)
(* subscribed behind the one that raised                                   *)
C34_NotifiedBehindRaisingObserver ==
  /\ Ran(step, "emit", "transferSlips") /\ done.status = "ok"
  /\ \E i \in PulseNotifications(events) :
       /\ events[i].received[1].raised
       /\ events[i].received[2].observer = "console"
       /\ ~events[i].received[2].raised
       /\ events[i].data.type = "SLIP_TRANSFER"
       /\ events[i].ledger = DurableLedger(storage)

(* the hash of every entry of the address index is a key of the content    *)
(* store                                                                   *)
IndexBacked(k) ==
  \A address \in DOMAIN k.addressIndex : Has(k.contentStore, k.addressIndex[address].hash)

(* the last resolveAddress, of an xhe or ipfs address, returned            *)
(* KNOWN_BUT_UNAVAILABLE                                                   *)
ResolvedUnavailable(resolved) ==
  /\ resolved # <<>>
  /\ resolved[1].value[2].type \in {"xhe", "ipfs"}
  /\ resolved[1].value[2].state = "KNOWN_BUT_UNAVAILABLE"

(* C35 as stated: in every state reached without importKernelState, every  *)
(* index entry's hash is a key of the content store, and no resolveAddress *)
(* of an xhe or ipfs address has returned KNOWN_BUT_UNAVAILABLE.           *)
C35_IndexBackedWithoutImport ==
  (kernel.alive /\ ~hist.imported)
    => IndexBacked(kernel) /\ ~ResolvedUnavailable(hist.resolved)

(* C35: in every state reached without importKernelState and without the   *)
(* page dying in the middle of a call, every index entry's hash is a key   *)
(* of the content store, in memory and in localStorage, and no             *)
(* resolveAddress of an xhe or ipfs address has returned                   *)
(* KNOWN_BUT_UNAVAILABLE.                                                  *)
C35_IndexBackedWithoutImportOrCrash ==
  (kernel.alive /\ ~hist.imported /\ hist.crashes = 0)
    => /\ IndexBacked(kernel)
       /\ \A address \in DOMAIN loadState(storage, "ADDRESS_INDEX", EmptyMap) :
            Has(loadState(storage, "CONTENT_STORE", EmptyMap),
                loadState(storage, "ADDRESS_INDEX", EmptyMap)[address].hash)
       /\ ~ResolvedUnavailable(hist.resolved)

(* a generated address, still in the index, was resolved to its content    *)
(* in a kernel that never imported and never died                          *)
C35_ResolvedIndexedAddress ==
  /\ kernel.alive /\ ~hist.imported /\ hist.crashes = 0
  /\ hist.resolved # <<>>
  /\ Has(kernel.addressIndex, hist.resolved[1].arg[2])
  /\ hist.resolved[1].value[2].state = "RESOLVED"
  /\ hist.resolved[1].value[2].type = "xhe"
  /\ Has(kernel.contentStore, kernel.addressIndex[hist.resolved[1].arg[2]].hash)

(* an address known to the index alone was resolved after an import *)
UnavailableAfterImport ==
  hist.imported /\ hist.crashes = 0 /\ ResolvedUnavailable(hist.resolved)

(* no two pulses of the store have the same sequence number *)
SequenceNumbersDiffer(pulseStore) ==
  \A id1, id2 \in DOMAIN pulseStore :
    id1 # id2 => SequenceNumber(pulseStore[id1].sequence)
                   # SequenceNumber(pulseStore[id2].sequence)

(* the counter is at least every sequence number of the store *)
CounterCovers(counter, pulseStore) ==
  \A id \in DOMAIN pulseStore : SequenceNumber(pulseStore[id].sequence) <= counter

(* the step was an importKernelState, of a snapshot holding pulses, that   *)
(* returned                                                                *)
ImportedPulses(s, d) ==
  /\ Ran(s, "sync", "importKernelState") /\ d.status = "ok"
  /\ d.arg[4] # <<>>
  /\ d.arg[4][1] # EmptyMap

(* C36: when importKernelState of a snapshot that contains pulses has      *)
(* returned, no two pulses in the pulse store share a sequence number and  *)
(* the sequence counter is at least the largest sequence number in the     *)
(* pulse store.                                                            *)
C36_ImportKeepsCounterAhead ==
  ImportedPulses(step, done)
    => /\ SequenceNumbersDiffer(kernel.pulseStore)
       /\ CounterCovers(kernel.pulseSequence, kernel.pulseStore)

(* the addresses generateAddress has put in the index for a scheme *)
IndexedOf(k, schemes) ==
  {address \in DOMAIN k.addressIndex : k.addressIndex[address].type \in schemes}

(* the dids the identity lookup knows: the current one, the former ones,   *)
(* those followed and following                                            *)
KnownIdentity(k, address) ==
  \/ address = k.identity.did
  \/ \E i \in 1..Len(k.identityHistory) : k.identityHistory[i].did = address
  \/ address \in Range(k.socialGraph.following)
  \/ address \in Range(k.socialGraph.followers)

(* what the lookup gives for a generated address, and what the last        *)
(* resolveAddress of it returned, is in `states'                           *)
ResolvesWithin(address, states) ==
  /\ ResolveDispatch(kernel, address).state \in states
  /\ (Ran(step, "emit", "resolveAddress") /\ done.arg[2] = address)
       => done.value[2].state \in states

(* the content generateAddress stored for an indexed address *)
ContentOf(k, address) == k.contentStore[k.addressIndex[address].hash].content

(* the hash segment of generateAddress has put the address it will return *)
(* in the index, with its scheme and the hash of the content, and the      *)
(* content in the content store                                            *)
RecordedAtHash ==
  Ran(step', "hash", "generateAddress")
    => \A i \in 1..limits.maxTasks :
         (tasks'[i] # tasks[i] /\ tasks'[i].pc = "emit")
           => /\ Has(kernel'.addressIndex, tasks'[i].local[1])
              /\ kernel'.addressIndex[tasks'[i].local[1]].hash = tasks'[i].local[2]
              /\ kernel'.addressIndex[tasks'[i].local[1]].type = tasks'[i].arg[3]
              /\ Has(kernel'.contentStore, tasks'[i].local[2])

(* what the generated addresses of the index resolve to, by scheme *)
GeneratedAddressesResolve ==
  kernel.alive =>
    /\ \A address \in IndexedOf(kernel, {"did:xhe"}) :
         /\ ResolveDispatch(kernel, address).type = "did:xhe"
         /\ ~KnownIdentity(kernel, address) => ResolvesWithin(address, {"UNKNOWN"})
         /\ ResolveDispatch(kernel, address).state \in {"UNKNOWN", "KNOWN_BUT_UNAVAILABLE"}
              => ResolveDispatch(kernel, address).content = <<>>
    /\ \A address \in IndexedOf(kernel, {"pulse"}) :
         /\ ResolveDispatch(kernel, address).type = "pulse"
         /\ ~MatchingPulse(kernel, parseAddress(address))
              => /\ ResolvesWithin(address, {"UNKNOWN"})
                 /\ ResolveDispatch(kernel, address).content = <<>>
    /\ \A address \in IndexedOf(kernel, {"xhe", "ipfs"}) :
         Has(kernel.contentStore, kernel.addressIndex[address].hash)
           => /\ ResolvesWithin(address, {"RESOLVED"})
              /\ ResolveDispatch(kernel, address).content = ContentOf(kernel, address)

(* C37: generateAddress with scheme did:xhe or pulse records the content   *)
(* and the index entry, before its pulse, like any other scheme; the       *)
(* did:xhe address goes to the identity lookup and resolves to UNKNOWN     *)
(* unless it is the current did, a former did or a did of                  *)
(* following/followers; the pulse address resolves to UNKNOWN unless the   *)
(* pulse store holds a pulse with its sequence and hash; neither resolves  *)
(* to the generated content, while an xhe or ipfs address whose content is *)
(* stored resolves to it.                                                  *)
C37_OnlyContentSchemesResolveToContent ==
  []GeneratedAddressesResolve /\ [][RecordedAtHash]_vars

(* a did:xhe address that generateAddress returned, its content in the     *)
(* content store, was resolved to UNKNOWN                                  *)
C37_GeneratedDidUnknown ==
  /\ Ran(step, "emit", "resolveAddress")
  /\ done.arg[2] \in IndexedOf(kernel, {"did:xhe"})
  /\ Has(kernel.contentStore, kernel.addressIndex[done.arg[2]].hash)
  /\ ContentOf(kernel, done.arg[2]) = <<Chr("a")>>
  /\ done.value[2].state = "UNKNOWN"
  /\ done.value[2].content = <<>>

(* a resetKernel and one other call were suspended together, both have     *)
(* completed, and nothing else was called since                            *)
ResetOverlappedAndDone ==
  /\ kernel.alive /\ Quiescent
  /\ hist.overlap /\ hist.resets = 1 /\ hist.calls = 2
  /\ hist.boots = 0 /\ hist.crashes = 0 /\ ~hist.cut

(* C38: when resetKernel and another pulse-emitting call were suspended    *)
(* together and both have completed, the pulse store holds no pulse with a *)
(* sequence number greater than the sequence counter, and the ledger,      *)
(* feeds and channels hold nothing the other call wrote: the ledger has no *)
(* transaction, feeds and channels are empty.                              *)
C38_ResetTakesFullEffect ==
  ResetOverlappedAndDone
    => /\ CounterCovers(kernel.pulseSequence, kernel.pulseStore)
       /\ CounterCovers(loadState(storage, "PULSE_SEQUENCE", 0), DurablePulseStore(storage))
       /\ kernel.slipLedger.transactions = <<>>
       /\ kernel.feeds = EmptyMap
       /\ kernel.channels = EmptyMap

====
